---- MODULE Spec2Model ----
(***************************************************************************)
(* A model of pjmalandrino/automator: the action dispatcher with its       *)
(* bounded retry loop (src/src/action_executor.py, ActionExecutor.execute),*)
(* the element-resolution cascade (ActionExecutor._find_element), the      *)
(* session store (src/src/browser_engine.py, get_or_create_page), the      *)
(* test context store (src/src/context_manager.py) and the tools           *)
(* execute_test and run_scenario of the server (src/src/server.py).        *)
(*                                                                         *)
(* Each component has its own variables, initial condition and next-state  *)
(* relation; a specification of one component keeps the variables of the   *)
(* other components at their initial values.                               *)
(***************************************************************************)
EXTENDS Integers, Sequences, FiniteSets, TLC

(***************************************************************************)
(* Bounds of the model.                                                    *)
(***************************************************************************)
\* The largest retry_count an ActionExecutor is constructed with.
MaxRetry == 3
\* The most queries of the resolver a page answers with anything but "no match".
MaxActive == 2
\* The most words of a description.
MaxWords == 2
\* The number of tasks that call get_or_create_page.
NumTasks == 2
\* The most calls of get_or_create_page in a run.
MaxCalls == 4
\* The most operations on the test context store in a run.
MaxOps == 3
\* The most lines of text, descriptions and scenarios, that the tools
\* run_scenario and execute_test are called with in a run.
MaxLines == 3
\* The most actions the translator returns for a test.
MaxActions == 2
\* The most calls of the tool execute_test in a run of that tool alone.
MaxTests == 2
\* The most calls of call_tool in a run.
MaxToolCalls == 2

VARIABLES
    \* ---- ActionExecutor.execute ----
    retry_count,   \* self.retry_count, set by the constructor
    action,        \* the action dict handed to execute
    script,        \* what the handler does on its i-th invocation
    pc,            \* where execute stands
    attempt,       \* the loop variable of execute
    result,        \* what execute returned (meaningful when pc = "done")
    calls,         \* how many times the handler was invoked
    sleeps,        \* how many times execute slept for retry_delay
    retry_delay,   \* self.retry_delay, set by the constructor
    delays,        \* the sleeps that ended, in order: the number of handler
                   \* invocations made before each, and how long it was
    world,         \* what the page does during the i-th invocation of a handler
    document,      \* what the page object handed to execute stands for: the
                   \* top-level page ("top") or the document of a frame
    \* ---- ActionExecutor._find_element ----
    page,          \* the page: what each query of the resolver finds on it
    description,   \* the description handed to _find_element
    fpc,           \* where _find_element stands
    strategy,      \* the index of the strategy the cascade is at
    word,          \* the index of the description word the fallback is at
    evaluated,     \* the queries _find_element has made, in order
    found,         \* what _find_element returned or raised (when fpc = "done")
    \* ---- BrowserEngine.get_or_create_page ----
    contexts,      \* self.contexts: session id -> browsing context
    pages,         \* self.pages: session id -> page
    tasks,         \* each task's position in get_or_create_page
    driver_contexts, \* the contexts the driver created: the i-th for which id
    driver_pages,  \* the pages the driver created: the j-th in which context
    returned,      \* the calls that ended, in order, each with what it gave
    \* ---- TestContextManager ----
    test_contexts, \* self.contexts: context id -> context record
    now,           \* the clock read by datetime.now()
    last_call,     \* the last operation on the store, with its arguments
    before,        \* self.contexts as it was before the last operation
    \* ---- BDDAutomationServer ----
    scenario,      \* the run_scenario call in progress, if any
    test,          \* the execute_test call in progress, if any
    hashes,        \* hash(scenario) of the texts run_scenario was called with
    lines_read,    \* how many lines of text the tools were called with
    trace,         \* the calls that ended, in order, each with what it gave
    \* ---- BDDAutomationServer.call_tool ----
    tool_call,     \* the call_tool in progress, if any
    host,          \* what the calls of call_tool gave the host, in order
    \* ---- BrowserEngine.initialize and cleanup ----
    playwright,    \* self.playwright: "None" or the driver that was started
    browser,       \* self.browser: "None" or the browser that was launched
    life,          \* where initialize or cleanup stands, and the contexts
                   \* cleanup has still to close
    released,      \* what cleanup closed or stopped, in order
    \* ---- BDDAutomationServer.execute_test, called concurrently ----
    runs           \* the call of execute_test each task is in, if any

execVars ==
    <<retry_count, action, script, pc, attempt, result, calls, sleeps,
      retry_delay, delays, world, document>>
findVars == <<page, description, fpc, strategy, word, evaluated, found>>
engineVars == <<contexts, pages, tasks, driver_contexts, driver_pages, returned>>
storeVars == <<test_contexts, now, last_call, before>>
serverVars == <<scenario, test, hashes, lines_read, trace>>
toolVars == <<tool_call, host>>
lifeVars == <<playwright, browser, life, released>>
runVars == <<runs>>

\* What a step of one component leaves alone: the other components.
execOthers ==
    <<findVars, engineVars, storeVars, serverVars, toolVars, lifeVars, runVars>>
findOthers ==
    <<execVars, engineVars, storeVars, serverVars, toolVars, lifeVars, runVars>>
engineOthers ==
    <<execVars, findVars, storeVars, serverVars, toolVars, lifeVars, runVars>>
storeOthers ==
    <<execVars, findVars, engineVars, serverVars, toolVars, lifeVars, runVars>>
\* The server calls the session store and the context store.
serverOthers ==
    <<execVars, findVars, toolVars, lifeVars, runVars>>
\* initialize and cleanup share self.contexts with get_or_create_page.
lifeOthers == <<execVars, findVars, storeVars, serverVars, toolVars, runVars>>
\* Concurrent calls of execute_test share the session store and the context
\* store.
runOthers == <<execVars, findVars, serverVars, toolVars, lifeVars>>
\* call_tool, its operations taken as given.
toolOthers ==
    <<execVars, findVars, engineVars, storeVars, serverVars, lifeVars, runVars>>

(***************************************************************************)
(* ActionExecutor.execute                                                  *)
(***************************************************************************)

\* The keys of self.action_handlers.
action_handlers ==
    {"navigate", "click", "type", "select", "assert", "wait", "hover",
     "screenshot", "scroll", "press", "check", "uncheck", "upload",
     "download", "iframe", "execute_script"}

\* The values of action['action'] the model hands to execute; NoKind is an
\* action dict without the 'action' key.
NoKind == "<absent>"
ActionKinds == {"click", "Click", "assert", "NAVIGATE", "fly", "switch-frame", NoKind}

\* str.lower on the kinds above.
Lower(s) ==
    CASE s = "Click" -> "click"
      [] s = "NAVIGATE" -> "navigate"
      [] OTHER -> s

\* action.get('action', '').lower()
ActionType(a) == IF a.action = NoKind THEN "" ELSE Lower(a.action)

Actions == [action : ActionKinds, target : {"#go"}]

\* The messages of the faults a handler raises.
Faults == {"timeout", "detached"}

\* What one invocation of a handler does: it raises a fault, or returns a dict.
HandlerReturns == [success : BOOLEAN, data : {"d"}]
Outcomes ==
    [kind : {"raise"}, error : Faults] \cup [kind : {"return"}, value : HandlerReturns]

\* Python's None: execute falls off the end of its body.
None == [none |-> TRUE]

\* A variant of AttemptNumber that records the loop index itself.
AttemptNumberZeroBased(a) == a

\* The number recorded for the attempt with loop index a: attempt + 1.
AttemptNumber(a) == a + 1

\* range(self.retry_count)
RetryRange == 0 .. (retry_count - 1)

\* A variant of RetryAfterFault that is off by one: the final fault is retried too.
RetryAfterFaultOffByOne(a) == a < retry_count

\* The test of line 50: a fault on this attempt is followed by another attempt.
RetryAfterFault(a) == a < retry_count - 1

\* The values of retry_delay an ActionExecutor is constructed with, in
\* seconds (line 9: the default is 1).
RetryDelays == {1, 2}

\* A variant of SleepDelay: the delay grows with the attempt.
SleepDelayGrowing(a) == retry_delay * (a + 1)

\* Line 51: how long the sleep after the attempt with loop index a is.
SleepDelay(a) == retry_delay

\* The dict execute returns for an unknown action type.
UnknownResult(a) ==
    [success |-> FALSE, error |-> <<"Unknown action type", ActionType(a)>>, action |-> a]

\* The dict execute returns when the final attempt raised e.
FailureResult(e, a, n) ==
    [success |-> FALSE, error |-> e, action |-> a, attempts |-> n]

\* result["attempts"] = attempt + 1 on the dict r the handler returned.
WithAttempts(r, n) == [k \in DOMAIN r \cup {"attempts"} |->
                          IF k = "attempts" THEN n ELSE r[k]]

\* What the page does during one invocation of a handler: whether
\* _find_element finds the element, element.click() returns, the page gets
\* idle within the timeout, the element is visible, and what goto returns.
Still ==
    [find |-> "found", click |-> "ok", idle |-> "idle", visible |-> TRUE,
     response |-> "ok"]

\* The actions the handlers are invoked with: a click, asserts of type
\* element, value and title, the frame switches, a navigation.
HandlerActions ==
    {[action |-> "click", target |-> "#go"],
     [action |-> "assert", target |-> "element"],
     [action |-> "assert", target |-> "value"],
     [action |-> "assert", target |-> "title"],
     [action |-> "iframe", target |-> "main"],
     [action |-> "iframe", target |-> "#frame"],
     [action |-> "switch-frame", target |-> "#frame"],
     [action |-> "navigate", target |-> "example.com"]}

\* What the page can do during one invocation of the handler of action a:
\* the fields the handler does not read keep their values of Still.
WorldsOf(a) ==
    CASE a.action = "click" ->
             {[Still EXCEPT !.find = f, !.click = c, !.idle = i] :
                  f \in {"found", "missing"}, c \in {"ok", "raise"},
                  i \in {"idle", "timeout"}}
      [] a.action = "assert" ->
             {[Still EXCEPT !.find = f, !.visible = v] :
                  f \in {"found", "missing"}, v \in BOOLEAN}
      [] a.action = "navigate" ->
             {[Still EXCEPT !.response = r] : r \in {"ok", "not_ok", "none", "raise"}}
      [] OTHER -> {[Still EXCEPT !.find = f] : f \in {"found", "missing"}}

\* Line 110: the fault _find_element raises.
CouldNotFind == [kind |-> "raise", error |-> "Could not find element"]

\* A variant of IdleFaultIgnored: a timeout of the wait leaves the handler.
IdleFaultRaised(e) == FALSE

\* Lines 139-142: the bare except around wait_for_load_state.
IdleFaultIgnored(e) == TRUE

\* Lines 130-148: _execute_click.
Click(a, e) ==
    IF e.find = "missing" THEN CouldNotFind
    ELSE IF e.click = "raise" THEN [kind |-> "raise", error |-> "click"]
    ELSE IF e.idle = "timeout" /\ ~IdleFaultIgnored(e)
         THEN [kind |-> "raise", error |-> "timeout"]
    ELSE [kind |-> "return",
          value |-> [success |-> TRUE, clicked |-> a.target, new_url |-> "u"]]

\* Lines 135-136: the invocation clicked the element.
Clicked(a, e) == a.action = "click" /\ e.find = "found" /\ e.click = "ok"

\* Lines 234-239: what _execute_assert returns.
Asserted(a, matched, actual) ==
    [kind |-> "return",
     value |-> [success |-> matched, assertion |-> a.target, actual |-> actual,
                matched |-> matched]]

\* Lines 191-239: _execute_assert, for the types title, element and value
\* (the title and the value match when the element is visible).
AssertHandler(a, e) ==
    CASE a.target = "element" ->
             IF e.find = "missing"
             THEN Asserted(a, FALSE, "Element not found")
             ELSE Asserted(a, e.visible, "Element visible")
      [] a.target = "value" ->
             IF e.find = "missing"
             THEN CouldNotFind
             ELSE Asserted(a, e.visible, "v")
      [] OTHER -> Asserted(a, e.visible, "t")

\* Lines 396-402: what the local name `page` of _execute_iframe is bound to
\* when the handler returns.
LocalPage(a, e) == IF a.target = "main" THEN "main_frame" ELSE "content_frame"

\* Lines 392-407: _execute_iframe.
Iframe(a, e) ==
    IF a.target # "main" /\ e.find = "missing"
    THEN CouldNotFind
    ELSE [kind |-> "return",
          value |-> [success |-> TRUE, switched_to |-> a.target]]

\* A variant of Navigate: a response that is not ok is raised as a fault.
NavigateRaising(a, e) ==
    IF e.response \in {"raise", "not_ok"}
    THEN [kind |-> "raise", error |-> "goto"]
    ELSE [kind |-> "return",
          value |-> [success |-> TRUE, url |-> "u", status |-> e.response]]

\* Lines 112-128: _execute_navigate.
Navigate(a, e) ==
    IF e.response = "raise"
    THEN [kind |-> "raise", error |-> "goto"]
    ELSE [kind |-> "return",
          value |-> [success |-> e.response # "not_ok", url |-> "u",
                     status |-> e.response]]

\* What the invocation of the handler of action a does, the page doing e.
Handler(a, e) ==
    CASE ActionType(a) = "click" -> Click(a, e)
      [] ActionType(a) = "assert" -> AssertHandler(a, e)
      [] ActionType(a) = "iframe" -> Iframe(a, e)
      [] ActionType(a) = "navigate" -> Navigate(a, e)
      [] OTHER -> CouldNotFind

\* execute called with an action whose handler is one of the four above.
HandlersInit ==
    /\ retry_count \in 1 .. MaxRetry
    /\ action \in HandlerActions
    /\ world \in [1 .. MaxRetry -> WorldsOf(action)]
    /\ script = [i \in 1 .. MaxRetry |-> Handler(action, world[i])]
    /\ pc = "start"
    /\ attempt = 0
    /\ result = None
    /\ calls = 0
    /\ sleeps = 0
    /\ retry_delay = 1
    /\ delays = <<>>
    /\ document = "top"

ExecInit ==
    /\ retry_count \in 0 .. MaxRetry
    /\ action \in Actions
    /\ script \in [1 .. MaxRetry -> Outcomes]
    /\ pc = "start"
    /\ attempt = 0
    /\ result = None
    /\ calls = 0
    /\ sleeps = 0
    /\ retry_delay \in RetryDelays
    /\ delays = <<>>
    /\ world = [i \in 1 .. MaxRetry |-> Still]
    /\ document = "top"

\* Lines 33-44: the lookup of the handler and the entry of the loop.
ExecuteBegin ==
    /\ pc = "start"
    /\ IF ActionType(action) \notin action_handlers
       THEN /\ result' = UnknownResult(action)
            /\ pc' = "done"
       ELSE /\ result' = None
            /\ pc' = IF 0 \in RetryRange THEN "call" ELSE "done"
    /\ attempt' = 0
    /\ UNCHANGED <<retry_count, action, script, calls, sleeps, execOthers>>
    /\ UNCHANGED <<retry_delay, delays, world, document>>

\* Lines 46-48: the awaited handler returns a dict.
HandlerReturn ==
    /\ pc = "call"
    /\ script[calls + 1].kind = "return"
    /\ calls' = calls + 1
    /\ result' = WithAttempts(script[calls + 1].value, AttemptNumber(attempt))
    /\ pc' = "done"
    /\ UNCHANGED <<retry_count, action, script, attempt, sleeps, execOthers>>
    /\ UNCHANGED <<retry_delay, delays, world, document>>

\* Lines 49-59: the awaited handler raises.
HandlerRaise ==
    /\ pc = "call"
    /\ script[calls + 1].kind = "raise"
    /\ calls' = calls + 1
    /\ IF RetryAfterFault(attempt)
       THEN /\ pc' = "sleep"
            /\ result' = result
       ELSE /\ pc' = "done"
            /\ result' = FailureResult(script[calls + 1].error, action,
                                       AttemptNumber(attempt))
    /\ UNCHANGED <<retry_count, action, script, attempt, sleeps, execOthers>>
    /\ UNCHANGED <<retry_delay, delays, world, document>>

\* Lines 51-52: asyncio.sleep(self.retry_delay) ends and the loop continues.
SleepDone ==
    /\ pc = "sleep"
    /\ sleeps' = sleeps + 1
    /\ delays' = Append(delays, [after |-> calls, delay |-> SleepDelay(attempt)])
    /\ attempt' = attempt + 1
    /\ pc' = IF attempt + 1 \in RetryRange THEN "call" ELSE "done"
    /\ UNCHANGED <<retry_count, action, script, result, calls, retry_delay,
                   world, document, execOthers>>

ExecNext == ExecuteBegin \/ HandlerReturn \/ HandlerRaise \/ SleepDone

(***************************************************************************)
(* Claims about ActionExecutor.execute                                     *)
(***************************************************************************)

\* The handler of the action is in the dispatch table.
KnownKind == ActionType(action) \in action_handlers

\* The first invocation on which the handler returns (0: it never does).
FirstReturn ==
    IF \E i \in 1 .. MaxRetry : script[i].kind = "return"
    THEN CHOOSE i \in 1 .. MaxRetry :
             /\ script[i].kind = "return"
             /\ \A j \in 1 .. (i - 1) : script[j].kind = "raise"
    ELSE 0

\* The handler raises on each of its retry_count invocations.
AlwaysRaises == \A i \in 1 .. retry_count : script[i].kind = "raise"

\* C1: a handler that raises on its first k-1 invocations and returns on its
\* k-th, 1 <= k <= retry_count, makes execute return that handler's dict with
\* attempts = k, after exactly k invocations.
C1_AttemptsIsFirstSuccess ==
    (pc = "done" /\ KnownKind /\ FirstReturn \in 1 .. retry_count) =>
        /\ "attempts" \in DOMAIN result
        /\ result.attempts = FirstReturn
        /\ calls = FirstReturn
        /\ \A k \in DOMAIN script[FirstReturn].value :
               k \in DOMAIN result /\ result[k] = script[FirstReturn].value[k]

\* C1's case: the handler raised twice and returned on its third invocation.
C1_Witness ==
    /\ pc = "done"
    /\ KnownKind
    /\ FirstReturn = 3
    /\ retry_count = 3
    /\ calls = 3

\* C2: a handler that raises on every one of its retry_count invocations makes
\* execute return success = false, attempts = retry_count and the message of
\* the fault of the final attempt.
C2_ExhaustedRetries ==
    (pc = "done" /\ KnownKind /\ retry_count >= 1 /\ AlwaysRaises) =>
        /\ result # None
        /\ result.success = FALSE
        /\ "attempts" \in DOMAIN result
        /\ result.attempts = retry_count
        /\ calls = retry_count
        /\ result.error = script[retry_count].error

\* C2's case: three attempts raised, the first with another message than the last.
C2_Witness ==
    /\ pc = "done"
    /\ KnownKind
    /\ retry_count = 3
    /\ AlwaysRaises
    /\ script[1].error # script[3].error
    /\ calls = 3

\* C3: an action of unknown kind makes execute return success = false with
\* exactly 1 attempt recorded, no handler invoked and no retry wait.
C3_UnknownKindOneAttempt ==
    (pc = "done" /\ ~KnownKind) =>
        /\ result.success = FALSE
        /\ calls = 0
        /\ sleeps = 0
        /\ "attempts" \in DOMAIN result
        /\ result.attempts = 1

\* C30: the retry wait occurs once between each pair of consecutive attempts
\* and nowhere else: the i-th wait follows the i-th attempt and lasts
\* retry_delay, a wait is in progress only after a failed attempt that is not
\* the final one, every attempt but the first comes after as many waits as
\* attempts were made, and a run that made n attempts has made n - 1 waits.
C30_WaitsBetweenAttemptsOnly ==
    /\ \A i \in 1 .. Len(delays) :
           /\ delays[i].after = i
           /\ delays[i].delay = retry_delay
    /\ pc = "sleep" =>
           /\ calls = Len(delays) + 1
           /\ calls < retry_count
           /\ script[calls].kind = "raise"
    /\ pc = "call" => Len(delays) = calls
    /\ pc = "done" => Len(delays) = IF calls = 0 THEN 0 ELSE calls - 1

\* C30 happens: a run of three attempts, the third of which returned, has
\* ended after two waits.
C30_Witness ==
    /\ pc = "done"
    /\ retry_count = 3
    /\ calls = 3
    /\ script[3].kind = "return"
    /\ Len(delays) = 2
    /\ retry_delay = 2

\* The handler of the action resolves an element with _find_element and does
\* not return before it has.
UsesResolution(a) ==
    \/ ActionType(a) = "click"
    \/ ActionType(a) = "assert" /\ a.target \in {"element", "value"}
    \/ ActionType(a) = "iframe" /\ a.target # "main"

\* C32: whenever element resolution fails inside a handler invocation, an
\* assert of type element included, the attempt counts as failed and the
\* action is retried until an attempt finds the element or retry_count
\* attempts have been made.
C32_ElementNotFoundIsRetried ==
    (pc = "done" /\ KnownKind /\ UsesResolution(action) /\ world[1].find = "missing") =>
        \/ calls = retry_count
        \/ world[calls].find = "found"

\* C33: a failure or timeout of the wait for network idle after a click never
\* fails the action and never causes a retry: the invocation that resolved
\* and clicked the element is the last one and execute returns success, so
\* the element is clicked once.
C33_IdleWaitFailureIsIgnored ==
    \A i \in 1 .. calls :
        Clicked(action, world[i]) =>
            /\ pc = "done"
            /\ i = calls
            /\ result.success
            /\ result.attempts = i

\* C33's case: the first attempt did not find the element, the second found
\* and clicked it and the wait for network idle timed out.
C33_Witness ==
    /\ pc = "done"
    /\ calls = 2
    /\ world[1].find = "missing"
    /\ Clicked(action, world[2])
    /\ world[2].idle = "timeout"
    /\ result.success

\* C34: after a successful frame switch whose target is not "main" the
\* actions dispatched next for the session operate on the document of the
\* frame, and after one whose target is "main" on the top-level page.
C34_FrameSwitchTakesEffect ==
    (/\ pc = "done"
     /\ action.action \in {"iframe", "switch-frame"}
     /\ result # None
     /\ result.success) =>
        document = IF action.target = "main" THEN "top" ELSE "frame"

\* The first invocation is an assertion that does not match or a navigation
\* whose response is not ok.
FailsQuietly ==
    \/ ActionType(action) = "navigate" /\ world[1].response = "not_ok"
    \/ /\ ActionType(action) = "assert"
       /\ ~world[1].visible
       /\ action.target = "value" => world[1].find = "found"

\* C35: a handler that returns success = false without raising (an assertion
\* that does not match, a navigation whose response is not ok) is invoked
\* once: execute returns its result with attempts = 1 and no retry wait.
C35_ReturnedFailureIsNotRetried ==
    \/ ~KnownKind
    \/ ~(FailsQuietly \/ (script[1].kind = "return" /\ ~script[1].value.success))
    \/ /\ calls <= 1
       /\ pc # "sleep"
       /\ delays = <<>>
       /\ sleeps = 0
       /\ pc = "done" =>
              /\ calls = 1
              /\ script[1].kind = "return"
              /\ result = WithAttempts(script[1].value, 1)
              /\ result.attempts = 1
              /\ ~result.success

\* C35's case: a navigation whose response is not ok, with three attempts
\* allowed, has returned.
C35_Witness ==
    /\ pc = "done"
    /\ retry_count = 3
    /\ ActionType(action) = "navigate"
    /\ world[1].response = "not_ok"
    /\ calls = 1
    /\ ~result.success

\* C4: execute always returns a result whose attempts field is present, lies
\* in 1 .. retry_count and is the number of tries made.
C4_AttemptsAlwaysRecorded ==
    pc = "done" =>
        /\ result # None
        /\ "attempts" \in DOMAIN result
        /\ result.attempts \in 1 .. retry_count
        /\ (KnownKind => result.attempts = calls)

(***************************************************************************)
(* ActionExecutor._find_element                                            *)
(***************************************************************************)

\* len(strategies): the cascade of lines 63-88.
NumStrategies == 14

\* The words a description is made of, and str.lower and len on them.
Words == {"the", "Sign"}
LowerWord(w) == IF w = "Sign" THEN "sign" ELSE w
WordLen(w) == IF w = "the" THEN 3 ELSE 4

\* A description: the empty string, or a string of words separated by
\* whitespace (no word at all: a string of whitespace only).
Descriptions ==
    [empty : {TRUE}, words : {<<>>}] \cup
    [empty : {FALSE}, words : UNION {[1 .. n -> Words] : n \in 0 .. MaxWords}]

\* The queries the resolver can make of a page: strategy i of the cascade, or
\* the locator *:has-text('w') of the fallback.
StrategyQuery(i) == [strategy |-> i, text |-> ""]
TextQuery(w) == [strategy |-> 0, text |-> w]
Queries ==
    {StrategyQuery(i) : i \in 1 .. NumStrategies} \cup
    {TextQuery(LowerWord(w)) : w \in Words}

\* What a query finds: building or counting the locator raises, or it counts
\* so many matches.
NoMatch == [raises |-> FALSE, count |-> 0]
Answers == {[raises |-> TRUE, count |-> 0], [raises |-> FALSE, count |-> 1],
            [raises |-> FALSE, count |-> 2]}

\* The pages on which all but at most n queries find nothing.
RECURSIVE PagesWith(_)
PagesWith(n) ==
    IF n = 0
    THEN {[q \in Queries |-> NoMatch]}
    ELSE LET fewer == PagesWith(n - 1)
         IN fewer \cup {[p EXCEPT ![q] = a] : p \in fewer, q \in Queries, a \in Answers}

\* The pages _find_element is called on.
Pages == PagesWith(MaxActive)

\* The n-th match of query q on the page.
Element(q, n) == [kind |-> "element", query |-> q, nth |-> n]
\* raise Exception(f"Could not find element: {target}")
NotFound == [kind |-> "not_found"]
\* A fault of a strategy that reaches the caller of _find_element.
StrategyFault(q) == [kind |-> "fault", query |-> q]

\* A variant of First: the last match of the locator.
Last(q) == Element(q, page[q].count)

\* locator.first
First(q) == Element(q, 1)

\* await locator.count() > 0, without a fault
Matches(q) == ~page[q].raises /\ page[q].count > 0

\* A variant of Caught: the except clause catches nothing.
CaughtNever(q) == FALSE

\* The bare except of lines 95 and 107 catches the fault of the query.
Caught(q) == page[q].raises

\* A variant of LongWord: words of length 3 are queried too.
LongWordOffByOne(w) == WordLen(w) >= 3

\* len(word) > 3
LongWord(w) == WordLen(w) > 3

\* A variant of HasDescription: the fallback is never entered.
HasDescriptionNever(d) == FALSE

\* if description:
HasDescription(d) == ~d.empty

\* description.lower().split()
DescWords(d) == [i \in 1 .. Len(d.words) |-> LowerWord(d.words[i])]

\* The index of the first word from index i on that the loop of lines 101-108
\* queries (0: the loop ends without another query).
NextWord(d, i) ==
    LET long == {j \in i .. Len(DescWords(d)) : LongWord(DescWords(d)[j])}
    IN IF long = {} THEN 0 ELSE CHOOSE j \in long : \A k \in long : j <= k

FindInit ==
    /\ page \in Pages
    /\ description \in Descriptions
    /\ fpc = "cascade"
    /\ strategy = 1
    /\ word = 0
    /\ evaluated = <<>>
    /\ found = NotFound

\* Lines 98-110, entered when the cascade is exhausted: the first word to
\* query, or the fault of line 110.
EnterFallback ==
    IF HasDescription(description) /\ NextWord(description, 1) # 0
    THEN /\ fpc' = "fallback"
         /\ word' = NextWord(description, 1)
         /\ found' = found
    ELSE /\ fpc' = "done"
         /\ word' = word
         /\ found' = NotFound

\* Lines 90-94: the strategy's locator counts at least one match.
StrategyMatches ==
    /\ fpc = "cascade"
    /\ Matches(StrategyQuery(strategy))
    /\ evaluated' = Append(evaluated, StrategyQuery(strategy))
    /\ found' = First(StrategyQuery(strategy))
    /\ fpc' = "done"
    /\ UNCHANGED <<page, description, strategy, word, findOthers>>

\* Lines 90-96: the strategy's locator counts no match, or raises.
StrategyFails ==
    /\ fpc = "cascade"
    /\ ~Matches(StrategyQuery(strategy))
    /\ evaluated' = Append(evaluated, StrategyQuery(strategy))
    /\ IF page[StrategyQuery(strategy)].raises /\ ~Caught(StrategyQuery(strategy))
       THEN /\ found' = StrategyFault(StrategyQuery(strategy))
            /\ fpc' = "done"
            /\ UNCHANGED <<strategy, word>>
       ELSE IF strategy < NumStrategies
            THEN /\ strategy' = strategy + 1
                 /\ UNCHANGED <<fpc, word, found>>
            ELSE /\ strategy' = strategy
                 /\ EnterFallback
    /\ UNCHANGED <<page, description, findOthers>>

\* Lines 101-108: the locator of a description word is counted.
FallbackWord ==
    /\ fpc = "fallback"
    /\ LET q == TextQuery(DescWords(description)[word])
       IN /\ evaluated' = Append(evaluated, q)
          /\ IF Matches(q)
             THEN /\ found' = First(q)
                  /\ fpc' = "done"
                  /\ word' = word
             ELSE IF page[q].raises /\ ~Caught(q)
                  THEN /\ found' = StrategyFault(q)
                       /\ fpc' = "done"
                       /\ word' = word
                  ELSE IF NextWord(description, word + 1) # 0
                       THEN /\ word' = NextWord(description, word + 1)
                            /\ UNCHANGED <<fpc, found>>
                       ELSE /\ fpc' = "done"
                            /\ found' = NotFound
                            /\ word' = word
    /\ UNCHANGED <<page, description, strategy, findOthers>>

FindNext == StrategyMatches \/ StrategyFails \/ FallbackWord

\* The words of the descriptions the fallback is exercised with: two distinct
\* words longer than 3 characters and one that is not.
FallbackWords == Words \cup {"link"}

FallbackDescriptions ==
    [empty : {TRUE}, words : {<<>>}] \cup
    [empty : {FALSE}, words : UNION {[1 .. n -> FallbackWords] : n \in 0 .. MaxWords}]

\* The pages the fallback is exercised on: the first or the last strategy of
\* the cascade finds nothing, matches or raises, every other strategy finds
\* nothing, and the locator of each word finds nothing, matches or raises.
FallbackPages ==
    LET queries == Queries \cup {TextQuery(LowerWord(w)) : w \in FallbackWords}
        texts == {q \in queries : q.strategy = 0}
        silent == [q \in queries |-> NoMatch]
        cascades == {silent} \cup
                    {[silent EXCEPT ![StrategyQuery(i)] = a] :
                         i \in {1, NumStrategies}, a \in Answers}
    IN {[q \in queries |-> IF q \in texts THEN t[q] ELSE c[q]] :
            c \in cascades, t \in [texts -> Answers \cup {NoMatch}]}

FallbackInit ==
    /\ page \in FallbackPages
    /\ description \in FallbackDescriptions
    /\ fpc = "cascade"
    /\ strategy = 1
    /\ word = 0
    /\ evaluated = <<>>
    /\ found = NotFound

(***************************************************************************)
(* Claims about ActionExecutor._find_element                               *)
(***************************************************************************)

\* Query q has at least one match on page p.
HasMatch(p, q) == ~p[q].raises /\ p[q].count >= 1

\* The lowest-numbered strategy of the cascade with a match on p (0: none).
Winner(p) ==
    LET hits == {i \in 1 .. NumStrategies : HasMatch(p, StrategyQuery(i))}
    IN IF hits = {} THEN 0 ELSE CHOOSE i \in hits : \A j \in hits : i <= j

\* The first word of d longer than 3 characters with a match on p (0: none, or
\* no description).
FallbackWinner(p, d) ==
    LET ws == [i \in 1 .. Len(d.words) |-> LowerWord(d.words[i])]
        hits == {j \in 1 .. Len(ws) : WordLen(ws[j]) > 3 /\ HasMatch(p, TextQuery(ws[j]))}
    IN IF d.empty \/ hits = {} THEN 0 ELSE CHOOSE j \in hits : \A k \in hits : j <= k

\* What the resolver is to return on page p for description d.
Resolve(p, d) ==
    IF Winner(p) # 0 THEN [kind |-> "element", query |-> StrategyQuery(Winner(p)), nth |-> 1]
    ELSE IF FallbackWinner(p, d) # 0
         THEN [kind |-> "element",
               query |-> TextQuery(LowerWord(d.words[FallbackWinner(p, d)])), nth |-> 1]
         ELSE [kind |-> "not_found"]

\* Page p with every raising query answered by "no match".
Quiet(p) == [q \in DOMAIN p |-> IF p[q].raises THEN NoMatch ELSE p[q]]

\* The words the fallback asked the page for, in order.
AskedWords ==
    [k \in 1 .. (IF Len(evaluated) > NumStrategies THEN Len(evaluated) - NumStrategies ELSE 0)
        |-> evaluated[NumStrategies + k].text]

\* The tokens of the description that are longer than 3 characters, in order.
LongTokens ==
    LET ws == [i \in 1 .. Len(description.words) |-> LowerWord(description.words[i])]
    IN SelectSeq(ws, LAMBDA w : WordLen(w) > 3)

\* The first of the long tokens with a match on the page (0: none).
FirstLongMatch ==
    LET hits == {j \in 1 .. Len(LongTokens) : HasMatch(page, TextQuery(LongTokens[j]))}
    IN IF hits = {} THEN 0 ELSE CHOOSE j \in hits : \A k \in hits : j <= k

\* C31: the description fallback is consulted only after every strategy of
\* the cascade has failed and only with a description; it asks for the tokens
\* in their order, never for a token of length <= 3, and returns the first
\* match of the first token longer than 3 characters that has a match.
C31_FallbackAfterCascadeInTokenOrder ==
    /\ \A k \in 1 .. Len(evaluated) :
           evaluated[k].strategy = 0 =>
               /\ k > NumStrategies
               /\ \A i \in 1 .. NumStrategies :
                      /\ evaluated[i] = StrategyQuery(i)
                      /\ ~HasMatch(page, StrategyQuery(i))
               /\ ~description.empty
               /\ WordLen(evaluated[k].text) > 3
    /\ Len(AskedWords) <= Len(LongTokens)
    /\ \A k \in 1 .. Len(AskedWords) : AskedWords[k] = LongTokens[k]
    /\ (fpc = "done" /\ Winner(page) = 0 /\ ~description.empty) =>
           IF FirstLongMatch = 0
           THEN found = NotFound /\ AskedWords = LongTokens
           ELSE /\ found = [kind |-> "element",
                            query |-> TextQuery(LongTokens[FirstLongMatch]), nth |-> 1]
                /\ Len(AskedWords) = FirstLongMatch

\* C31's case: after a cascade in which a strategy raised and none matched,
\* the fallback asked for a long token without a match and returned the
\* first of the two matches of the next long token.
C31_Witness ==
    /\ fpc = "done"
    /\ \E i \in 1 .. NumStrategies : page[StrategyQuery(i)].raises
    /\ Len(description.words) = MaxWords
    /\ description.words[1] = "Sign"
    /\ description.words[MaxWords] = "link"
    /\ page[TextQuery("link")].count = 2
    /\ AskedWords = <<"sign", "link">>
    /\ found = [kind |-> "element", query |-> TextQuery("link"), nth |-> 1]

\* C5: the resolver returns the first match of the lowest-numbered strategy
\* with at least one match, and evaluates no later strategy; the result is a
\* function of the page alone.
C5_LowestMatchingStrategyWins ==
    (fpc = "done" /\ Winner(page) # 0) =>
        /\ found = [kind |-> "element", query |-> StrategyQuery(Winner(page)), nth |-> 1]
        /\ evaluated = [i \in 1 .. Winner(page) |-> StrategyQuery(i)]

\* C5's case: strategies 1 and 3 both match, strategy 1 with two matches.
C5_Witness ==
    /\ fpc = "done"
    /\ HasMatch(page, StrategyQuery(1))
    /\ page[StrategyQuery(1)].count = 2
    /\ HasMatch(page, StrategyQuery(3))
    /\ found.kind = "element"

\* C6: a query that raises is treated as one with zero matches: the cascade
\* goes on, no fault of a query reaches the caller, and the result is the one
\* of the page on which that query finds nothing.
C6_RaisingStrategyIsNoMatch ==
    (fpc = "done" /\ \E k \in 1 .. Len(evaluated) : page[evaluated[k]].raises) =>
        /\ found.kind # "fault"
        /\ found = Resolve(Quiet(page), description)

\* C6's case: strategy 2 raised and the later strategy 5 won.
C6_Witness ==
    /\ fpc = "done"
    /\ page[StrategyQuery(2)].raises
    /\ found = [kind |-> "element", query |-> StrategyQuery(5), nth |-> 1]

\* C7: the resolver fails with element-not-found exactly when no strategy of
\* the cascade has a match and the description fallback has none either;
\* otherwise it returns one element.
C7_NotFoundIffNothingMatches ==
    fpc = "done" =>
        /\ found.kind = "not_found" <=>
               (Winner(page) = 0 /\ FallbackWinner(page, description) = 0)
        /\ found.kind # "not_found" => (found.kind = "element" /\ found.nth = 1)

\* C7's case: every strategy failed, one of them by raising, and the word of
\* the description that the fallback queried had no match.
C7_Witness ==
    /\ fpc = "done"
    /\ found.kind = "not_found"
    /\ ~description.empty
    /\ Len(evaluated) = NumStrategies + 1
    /\ \E i \in 1 .. NumStrategies : page[StrategyQuery(i)].raises

(***************************************************************************)
(* BrowserEngine.get_or_create_page                                        *)
(***************************************************************************)

\* The session ids get_or_create_page is called with.
SessionIds == {"default", "s1"}

Tasks == 1 .. NumTasks

\* A task outside get_or_create_page.
Idle == [pc |-> "idle", id |-> "default", context |-> 0]

\* d with d[k] = v, as the assignment d[k] = v of a dict.
Put(d, k, v) == [x \in DOMAIN d \cup {k} |-> IF x = k THEN v ELSE d[x]]

\* A variant of HasPage: the page of a session is never found.
HasPageNever(id) == FALSE

\* context_id in self.pages
HasPage(id) == id \in DOMAIN pages

\* A variant of HasContext: the context of a session is never found.
HasContextNever(id) == FALSE

\* context_id in self.contexts
HasContext(id) == id \in DOMAIN contexts

\* A call that ended: it returned page p, or raised (page 0) at the await `at`.
Returned(id, p) == [id |-> id, raised |-> FALSE, page |-> p, at |-> "return"]
Raised(id, at) == [id |-> id, raised |-> TRUE, page |-> 0, at |-> at]

\* No call is in progress.
AllIdle == \A t \in Tasks : tasks[t].pc = "idle"

EngineInit ==
    /\ contexts = <<>>
    /\ pages = <<>>
    /\ tasks = [t \in Tasks |-> Idle]
    /\ driver_contexts = <<>>
    /\ driver_pages = <<>>
    /\ returned = <<>>

\* The calls begun so far: those that ended and those in progress.
CallsBegun == Len(returned) + Cardinality({t \in Tasks : tasks[t].pc # "idle"})

\* Lines 23-27 up to the first await: the page exists and is returned, or the
\* task awaits browser.new_context(), or the context exists and the task
\* awaits its new_page().
BeginCall(t, id) ==
    /\ tasks[t].pc = "idle"
    /\ CallsBegun < MaxCalls
    /\ IF HasPage(id)
       THEN /\ returned' = Append(returned, Returned(id, pages[id]))
            /\ tasks' = tasks
       ELSE /\ returned' = returned
            /\ tasks' = [tasks EXCEPT ![t] =
                  IF HasContext(id)
                  THEN [pc |-> "new_page", id |-> id, context |-> contexts[id]]
                  ELSE [pc |-> "new_context", id |-> id, context |-> 0]]
    /\ UNCHANGED <<contexts, pages, driver_contexts, driver_pages, engineOthers>>

\* A call begun while no other call is in progress.
BeginCallAlone(t, id) == AllIdle /\ BeginCall(t, id)

\* Line 25: browser.new_context() returns; the context is stored, read back
\* (line 27) and its new_page() awaited.
ContextCreated(t) ==
    /\ tasks[t].pc = "new_context"
    /\ driver_contexts' = Append(driver_contexts, tasks[t].id)
    /\ contexts' = Put(contexts, tasks[t].id, Len(driver_contexts) + 1)
    /\ tasks' = [tasks EXCEPT ![t].pc = "new_page",
                              ![t].context = contexts'[tasks[t].id]]
    /\ UNCHANGED <<pages, driver_pages, returned, engineOthers>>

\* Line 25: browser.new_context() raises.
ContextFails(t) ==
    /\ tasks[t].pc = "new_context"
    /\ returned' = Append(returned, Raised(tasks[t].id, "new_context"))
    /\ tasks' = [tasks EXCEPT ![t] = Idle]
    /\ UNCHANGED <<contexts, pages, driver_contexts, driver_pages, engineOthers>>

\* Lines 27-33: new_page() returns; the page is stored and returned.
PageCreated(t) ==
    /\ tasks[t].pc = "new_page"
    /\ driver_pages' = Append(driver_pages, tasks[t].context)
    /\ pages' = Put(pages, tasks[t].id, Len(driver_pages) + 1)
    /\ returned' = Append(returned, Returned(tasks[t].id, pages'[tasks[t].id]))
    /\ tasks' = [tasks EXCEPT ![t] = Idle]
    /\ UNCHANGED <<contexts, driver_contexts, engineOthers>>

\* Line 27: new_page() raises.
PageFails(t) ==
    /\ tasks[t].pc = "new_page"
    /\ returned' = Append(returned, Raised(tasks[t].id, "new_page"))
    /\ tasks' = [tasks EXCEPT ![t] = Idle]
    /\ UNCHANGED <<contexts, pages, driver_contexts, driver_pages, engineOthers>>

EngineSteps(t) ==
    ContextCreated(t) \/ ContextFails(t) \/ PageCreated(t) \/ PageFails(t)

\* Calls made one after the other.
EngineNextSeq ==
    \E t \in Tasks : (\E id \in SessionIds : BeginCallAlone(t, id)) \/ EngineSteps(t)

\* Calls made by concurrent tasks, which suspend at each await.
EngineNext ==
    \E t \in Tasks : (\E id \in SessionIds : BeginCall(t, id)) \/ EngineSteps(t)

(***************************************************************************)
(* Claims about BrowserEngine.get_or_create_page                           *)
(***************************************************************************)

\* The pages the driver created in a context of session id.
PagesMadeFor(id) ==
    {j \in 1 .. Len(driver_pages) : driver_contexts[driver_pages[j]] = id}

\* The contexts the driver created for session id.
ContextsMadeFor(id) == {i \in 1 .. Len(driver_contexts) : driver_contexts[i] = id}

\* The calls that returned a page.
Returns == {k \in 1 .. Len(returned) : ~returned[k].raised}

\* C8: sequential calls of get_or_create_page with the same session id all
\* return the page created by the first of them, one context and one page are
\* created per id, and distinct ids get distinct pages in distinct contexts.
C8_SequentialCallsShareOnePage ==
    /\ \A id \in SessionIds :
           /\ Cardinality(ContextsMadeFor(id)) <= 1
           /\ Cardinality(PagesMadeFor(id)) <= 1
    /\ \A k \in Returns :
           /\ returned[k].page \in PagesMadeFor(returned[k].id)
           /\ returned[k].page = pages[returned[k].id]
    /\ \A k, l \in Returns :
           /\ returned[k].id = returned[l].id => returned[k].page = returned[l].page
           /\ returned[k].id # returned[l].id =>
                  /\ returned[k].page # returned[l].page
                  /\ driver_pages[returned[k].page] # driver_pages[returned[l].page]

\* C8's case: two calls for one id returned the same page and a call for
\* another id returned another page.
C8_Witness ==
    \E k, l, n \in Returns :
        /\ k < l
        /\ returned[k].id = returned[l].id
        /\ returned[k].page = returned[l].page
        /\ returned[n].id # returned[k].id

\* C40: in every state reached by sequential calls, also after a new_page()
\* that raised once the context was created, every session id with a page has
\* a context, the one its page was made in, and a call for an id that has a
\* context makes its page in that context: no second context is created for
\* the id.
C40_PageHasContextAndContextIsReused ==
    /\ \A id \in DOMAIN pages :
           /\ id \in DOMAIN contexts
           /\ driver_pages[pages[id]] = contexts[id]
    /\ \A id \in DOMAIN contexts :
           /\ ContextsMadeFor(id) = {contexts[id]}
           /\ \A t \in Tasks :
                  (tasks[t].pc = "new_page" /\ tasks[t].id = id) =>
                      tasks[t].context = contexts[id]
    /\ \A id \in SessionIds \ DOMAIN contexts : ContextsMadeFor(id) = {}

\* C40's case: new_page() raised in a call for an id after its context was
\* created, and a later call for the id returned a page made in that context.
C40_Witness ==
    \E k, l \in 1 .. Len(returned) :
        /\ k < l
        /\ returned[k].raised /\ returned[k].at = "new_page"
        /\ ~returned[l].raised /\ returned[l].id = returned[k].id
        /\ driver_pages[returned[l].page] = contexts[returned[k].id]
        /\ ContextsMadeFor(returned[k].id) = {contexts[returned[k].id]}

\* C9: under every interleaving of concurrent calls for one session id,
\* exactly one context and one page are created for it, and every caller
\* receives that page.
C9_ConcurrentCallsShareOnePage ==
    \A id \in SessionIds :
        /\ Cardinality(ContextsMadeFor(id)) <= 1
        /\ Cardinality(PagesMadeFor(id)) <= 1
        /\ \A k, l \in Returns :
               (returned[k].id = id /\ returned[l].id = id) =>
                   returned[k].page = returned[l].page

(***************************************************************************)
(* TestContextManager                                                      *)
(***************************************************************************)

\* The context ids the store is called with.
ContextIds == {"default", "scenario_1"}

\* The keys and values of test data.
DataKeys == {"k1", "k2"}
DataValues == {"v1", "v2"}

\* The dicts of test data: the maps from some of the keys to values.
DataMaps == UNION {[K -> DataValues] : K \in SUBSET DataKeys}

\* The top-level keys of a patch handed to update_context.
PatchKeys == {"test_data", "last_result", "last_test", "current_url", "history", "id"}

\* The patches: the dict with the keys of `has`, each with the value of its
\* field (a field whose key is absent holds a fixed value that is never read).
Patches ==
    {p \in [has : SUBSET PatchKeys, test_data : DataMaps, last_result : {"r1"},
            last_test : {"t1"}, current_url : {"u1"}, history : {<<>>},
            id : {"default"}] :
        "test_data" \notin p.has => p.test_data = <<>>}

\* A variant of Merged: the old dict is replaced by the patch.
Replaced(old, new) == new

\* dict.update: the keys of `new` take its values, the others keep theirs.
Merged(old, new) ==
    [k \in DOMAIN old \cup DOMAIN new |-> IF k \in DOMAIN new THEN new[k] ELSE old[k]]

\* Lines 13-21: the record create_context stores at time t.
NewContext(id, t) ==
    [id |-> id, created_at |-> t, updated_at |-> t, test_data |-> <<>>,
     history |-> <<>>, current_state |-> <<>>]

\* Lines 26-28: self.contexts after get_context(id) at time t.
WithContext(store, id, t) ==
    IF id \notin DOMAIN store THEN Put(store, id, NewContext(id, t)) ELSE store

\* A variant of Recorded: nothing is recorded.
RecordedNever(context, p, t) == context

\* Lines 35-40: the history after the patch's last_result, if any, is recorded.
Recorded(context, p, t) ==
    IF "last_result" \in p.has
    THEN [context EXCEPT !.history = Append(@,
              [timestamp |-> t,
               test |-> IF "last_test" \in p.has THEN p.last_test ELSE "",
               result |-> p.last_result])]
    ELSE context

\* Lines 43-48: the keys of the patch applied to the context, in any order
\* (they write distinct fields).
RECURSIVE Applied(_, _, _)
Applied(context, p, keys) ==
    IF keys = {}
    THEN context
    ELSE LET key == CHOOSE k \in keys : TRUE
             next == IF key = "test_data"
                     THEN [context EXCEPT !.test_data = Merged(@, p.test_data)]
                     ELSE Put(context, key, p[key])
         IN Applied(next, p, keys \ {key})

\* Lines 30-51: the context after update_context(id, p) at time t.
UpdatedContext(context, p, t) ==
    Put(Applied(Recorded(context, p, t), p, p.has), "updated_at", t)

\* Lines 62-68: the context after set_test_data(id, key, value) at time t.
WithTestData(context, key, value, t) ==
    LET c == IF "test_data" \notin DOMAIN context
             THEN Put(context, "test_data", <<>>)
             ELSE context
    IN Put([c EXCEPT !.test_data = Put(@, key, value)], "updated_at", t)

StoreInit ==
    /\ test_contexts = <<>>
    /\ now = 0
    /\ last_call = [op |-> "none"]
    /\ before = <<>>

\* Every operation reads the clock, which has moved on since the last one.
Tick ==
    /\ now < MaxOps
    /\ now' = now + 1
    /\ before' = test_contexts

\* create_context(id)
CreateContext(id) ==
    /\ Tick
    /\ test_contexts' = Put(test_contexts, id, NewContext(id, now'))
    /\ last_call' = [op |-> "create_context", id |-> id]
    /\ UNCHANGED storeOthers

\* get_context(id)
GetContext(id) ==
    /\ Tick
    /\ test_contexts' = WithContext(test_contexts, id, now')
    /\ last_call' = [op |-> "get_context", id |-> id]
    /\ UNCHANGED storeOthers

\* Lines 35-45: update_context finds the keys it subscripts, history and
\* test_data, in the context.
Updatable(context, p) ==
    /\ "last_result" \in p.has => "history" \in DOMAIN context
    /\ "test_data" \in p.has => "test_data" \in DOMAIN context

\* update_context(id, p)
UpdateContext(id, p) ==
    /\ Tick
    /\ LET store == WithContext(test_contexts, id, now')
       IN /\ Updatable(store[id], p)
          /\ test_contexts' = Put(store, id, UpdatedContext(store[id], p, now'))
    /\ last_call' = [op |-> "update_context", id |-> id, updates |-> p]
    /\ UNCHANGED storeOthers

\* set_test_data(id, key, value)
SetTestData(id, key, value) ==
    /\ Tick
    /\ LET store == WithContext(test_contexts, id, now')
       IN test_contexts' = Put(store, id, WithTestData(store[id], key, value, now'))
    /\ last_call' = [op |-> "set_test_data", id |-> id, key |-> key, value |-> value]
    /\ UNCHANGED storeOthers

\* The patches whose keys are among `keys`.
PatchesOver(keys) == {p \in Patches : p.has \subseteq keys}

\* The store under patches of test data and of the current URL.
StoreNext ==
    \E id \in ContextIds :
        \/ CreateContext(id)
        \/ GetContext(id)
        \/ \E p \in PatchesOver({"test_data", "current_url"}) : UpdateContext(id, p)
        \/ \E key \in DataKeys, value \in DataValues : SetTestData(id, key, value)

\* The values of test data that are not all JSON values: a string, a list,
\* a tuple and a set, each named by its Python literal.
PyValues == {"v1", "['a', 'b']", "('a', 'b')", "{'a', 'b'}"}

\* json.dumps raises TypeError on a set.
Serializable(value) == value # "{'a', 'b'}"

\* What json.dumps writes for a value: a tuple is written as an array, as a
\* list is.
Encoded(value) == IF value = "('a', 'b')" THEN "['a', 'b']" ELSE value

\* The test data of the context (none: the context has no test_data key).
TestDataOf(context) ==
    IF "test_data" \in DOMAIN context THEN context.test_data ELSE <<>>

\* json.dumps can write the context: it can write its test data.
CanDump(context) ==
    \A k \in DOMAIN TestDataOf(context) : Serializable(context.test_data[k])

\* Line 100: the text json.dumps writes for the context, an object with the
\* context's keys.
JsonDumps(context) ==
    [object |->
        [key \in DOMAIN context |->
            IF key = "test_data"
            THEN [k \in DOMAIN context.test_data |-> Encoded(context.test_data[k])]
            ELSE context[key]]]

\* A text that is not JSON.
NotJson == [invalid |-> TRUE]

\* The text of the empty object, "{}".
EmptyObject == [object |-> <<>>]

\* json.loads can read the text.
CanLoad(text) == "object" \in DOMAIN text

\* Line 104: the dict json.loads reads from the text.
JsonLoads(text) == text.object

\* A variant of Imported: the import refreshes updated_at too.
ImportedRefreshed(text, id, t) ==
    Put(Put(Put(JsonLoads(text), "id", id), "imported_at", t), "updated_at", t)

\* Lines 104-106: the record import_context(id, text) builds at time t.
Imported(text, id, t) ==
    Put(Put(JsonLoads(text), "id", id), "imported_at", t)

\* A variant of ImportedStore: the imported record is merged into the record
\* at id.
ImportedStoreMerged(store, id, text, t) ==
    Put(store, id,
        IF id \in DOMAIN store
        THEN Merged(store[id], Imported(text, id, t))
        ELSE Imported(text, id, t))

\* Line 107: self.contexts after import_context(id, text) at time t.
ImportedStore(store, id, text, t) == Put(store, id, Imported(text, id, t))

\* update_context(id, p) on a context without history, with a patch that has
\* last_result: line 36 raises KeyError before anything is written.
UpdateContextRaises(id, p) ==
    /\ Tick
    /\ "last_result" \in p.has
    /\ id \in DOMAIN test_contexts
    /\ "history" \notin DOMAIN test_contexts[id]
    /\ test_contexts' = test_contexts
    /\ last_call' = [op |-> "update_context", id |-> id, updates |-> p,
                     raised |-> "KeyError"]
    /\ UNCHANGED storeOthers

\* export_context(id), which returns the text
ExportContext(id) ==
    /\ Tick
    /\ LET store == WithContext(test_contexts, id, now')
       IN /\ CanDump(store[id])
          /\ test_contexts' = store
          /\ last_call' = [op |-> "export_context", id |-> id,
                           text |-> JsonDumps(store[id])]
    /\ UNCHANGED storeOthers

\* export_context(id), where json.dumps raises
ExportContextRaises(id) ==
    /\ Tick
    /\ LET store == WithContext(test_contexts, id, now')
       IN /\ ~CanDump(store[id])
          /\ test_contexts' = store
          /\ last_call' = [op |-> "export_context", id |-> id, raised |-> "TypeError"]
    /\ UNCHANGED storeOthers

\* import_context(id, text)
ImportContext(id, text) ==
    /\ Tick
    /\ CanLoad(text)
    /\ test_contexts' = ImportedStore(test_contexts, id, text, now')
    /\ last_call' = [op |-> "import_context", id |-> id, text |-> text]
    /\ UNCHANGED storeOthers

\* import_context(id, text), where json.loads raises
ImportContextRaises(id, text) ==
    /\ Tick
    /\ ~CanLoad(text)
    /\ test_contexts' = test_contexts
    /\ last_call' = [op |-> "import_context", id |-> id, raised |-> "JSONDecodeError"]
    /\ UNCHANGED storeOthers

\* import_context(id, export_context(id)): the export reads the clock if it
\* creates the context, the import reads it later.
RoundTrip(id) ==
    /\ now + 2 <= MaxOps
    /\ now' = now + 2
    /\ before' = test_contexts
    /\ LET store == WithContext(test_contexts, id, now + 1)
       IN /\ CanDump(store[id])
          /\ test_contexts' = ImportedStore(store, id, JsonDumps(store[id]), now')
    /\ last_call' = [op |-> "round_trip", id |-> id]
    /\ UNCHANGED storeOthers

\* import_context(id, export_context(id)), where the export raises
RoundTripRaises(id) ==
    /\ Tick
    /\ LET store == WithContext(test_contexts, id, now')
       IN /\ ~CanDump(store[id])
          /\ test_contexts' = store
    /\ last_call' = [op |-> "round_trip", id |-> id, raised |-> "TypeError"]
    /\ UNCHANGED storeOthers

\* The texts handed to import_context: an export of a context of the store,
\* the empty object and a text that is not JSON.
ImportTexts ==
    {JsonDumps(test_contexts[i]) : i \in {j \in DOMAIN test_contexts : CanDump(test_contexts[j])}}
        \cup {EmptyObject, NotJson}

\* The store with exports and imports, under values that are not all JSON.
PortNext ==
    \E id \in ContextIds :
        \/ GetContext(id)
        \/ \E p \in PatchesOver({"last_result"}) : UpdateContext(id, p)
        \/ \E p \in PatchesOver({"last_result"}) : UpdateContextRaises(id, p)
        \/ \E value \in PyValues : SetTestData(id, "k1", value)
        \/ ExportContext(id)
        \/ ExportContextRaises(id)
        \/ \E text \in ImportTexts : ImportContext(id, text)
        \/ \E text \in ImportTexts : ImportContextRaises(id, text)
        \/ RoundTrip(id)
        \/ RoundTripRaises(id)

\* The store under patches that record a test or carry a history key.
HistoryNext ==
    \E id \in ContextIds :
        \/ CreateContext(id)
        \/ GetContext(id)
        \/ \E p \in PatchesOver({"last_result", "last_test", "history"}) :
               UpdateContext(id, p)
        \/ \E key \in DataKeys, value \in DataValues : SetTestData(id, key, value)

\* Line 91: len(context.get("history", [])).
TestCount(context) ==
    IF "history" \in DOMAIN context THEN Len(context.history) ELSE 0

\* Lines 87-92: the summary of a context.
Summary(context) ==
    [id |-> context.id,
     created_at |-> context.created_at,
     updated_at |-> context.updated_at,
     test_count |-> TestCount(context),
     current_url |-> IF "current_url" \in DOMAIN context
                     THEN context.current_url
                     ELSE ""]

\* Lines 88-90: list_contexts finds the keys it subscripts in every context.
Listable(store) ==
    \A id \in DOMAIN store : {"id", "created_at", "updated_at"} \subseteq DOMAIN store[id]

\* Line 82: the store without the context at id.
Cleared(store, id) == [x \in DOMAIN store \ {id} |-> store[x]]

\* clear_context(id)
ClearContext(id) ==
    /\ Tick
    /\ test_contexts' = Cleared(test_contexts, id)
    /\ last_call' = [op |-> "clear_context", id |-> id]
    /\ UNCHANGED storeOthers

\* list_contexts()
ListContexts ==
    /\ Tick
    /\ Listable(test_contexts)
    /\ test_contexts' = test_contexts
    /\ last_call' = [op |-> "list_contexts",
                     result |-> [id \in DOMAIN test_contexts |->
                                     Summary(test_contexts[id])]]
    /\ UNCHANGED storeOthers

\* list_contexts(), where a context lacks a key the summary subscripts: the
\* subscript raises KeyError.
ListContextsRaises ==
    /\ Tick
    /\ ~Listable(test_contexts)
    /\ test_contexts' = test_contexts
    /\ last_call' = [op |-> "list_contexts", raised |-> "KeyError"]
    /\ UNCHANGED storeOthers

\* The store with its contexts listed and cleared between the other
\* operations.
ListNext ==
    \/ \E id \in ContextIds :
        \/ CreateContext(id)
        \/ GetContext(id)
        \/ \E p \in PatchesOver({"last_result", "current_url"}) : UpdateContext(id, p)
        \/ \E p \in PatchesOver({"last_result", "current_url"}) :
               UpdateContextRaises(id, p)
        \/ SetTestData(id, "k1", "v1")
        \/ \E text \in ImportTexts : ImportContext(id, text)
        \/ \E text \in ImportTexts : ImportContextRaises(id, text)
        \/ ClearContext(id)
    \/ ListContexts
    \/ ListContextsRaises

\* A value of a patch's test_data that dict.update cannot take: a number.
NotAMap == "5"

\* The patches over `keys` whose test_data is not a map.
BadPatchesOver(keys) ==
    {[p EXCEPT !.test_data = NotAMap] :
         p \in {q \in PatchesOver(keys \cup {"test_data"}) : "test_data" \in q.has}}

\* update_context(id, p) with a test_data that is not a map: line 46 raises
\* TypeError after the history entry was appended (lines 35-40) and the keys
\* that come before test_data in the patch, those of `first`, were assigned
\* (line 48); line 50 is not reached.
UpdateContextBadData(id, p, first) ==
    /\ Tick
    /\ LET store == WithContext(test_contexts, id, now')
       IN /\ "last_result" \in p.has => "history" \in DOMAIN store[id]
          /\ test_contexts' =
                 Put(store, id, Applied(Recorded(store[id], p, now'), p, first))
    /\ last_call' = [op |-> "update_context", id |-> id, updates |-> p,
                     raised |-> "TypeError"]
    /\ UNCHANGED storeOthers

\* The store under patches whose test_data may not be a map.
BadDataNext ==
    \E id \in ContextIds :
        \/ CreateContext(id)
        \/ GetContext(id)
        \/ \E p \in PatchesOver({"last_result", "current_url"}) : UpdateContext(id, p)
        \/ \E p \in BadPatchesOver({"last_result", "current_url"}) :
               \E first \in SUBSET (p.has \ {"test_data"}) :
                   UpdateContextBadData(id, p, first)

\* The store under every operation that writes a record, with patches that
\* carry an id or a current URL.
IdNext ==
    \E id \in ContextIds :
        \/ CreateContext(id)
        \/ GetContext(id)
        \/ \E p \in PatchesOver({"id", "current_url"}) : UpdateContext(id, p)
        \/ SetTestData(id, "k1", "v1")
        \/ \E text \in ImportTexts : ImportContext(id, text)
        \/ \E text \in ImportTexts : ImportContextRaises(id, text)
        \/ ClearContext(id)

(***************************************************************************)
(* Claims about TestContextManager                                         *)
(***************************************************************************)

\* The test data of context id in store (none: the context does not exist).
DataOf(store, id) == IF id \in DOMAIN store THEN store[id].test_data ELSE <<>>

\* The last operation was update_context with a test_data patch.
PatchedTestData ==
    /\ last_call.op = "update_context"
    /\ "test_data" \in last_call.updates.has

\* C10: update_context with a test_data patch merges key-wise: the keys of
\* the patch have the patch's values, every other key keeps its value, and
\* no key is removed.
C10_TestDataIsMerged ==
    PatchedTestData =>
        LET old == DataOf(before, last_call.id)
            new == DataOf(test_contexts, last_call.id)
            patch == last_call.updates.test_data
        IN /\ DOMAIN new = DOMAIN old \cup DOMAIN patch
           /\ \A k \in DOMAIN patch : new[k] = patch[k]
           /\ \A k \in DOMAIN old \ DOMAIN patch : new[k] = old[k]

\* C10's case: the patch overwrote k1 and left k2, which it does not hold.
C10_Witness ==
    /\ PatchedTestData
    /\ DOMAIN last_call.updates.test_data = {"k1"}
    /\ DOMAIN DataOf(before, last_call.id) = {"k1", "k2"}
    /\ DataOf(before, last_call.id)["k1"] # last_call.updates.test_data["k1"]
    /\ DataOf(test_contexts, last_call.id)["k2"] = DataOf(before, last_call.id)["k2"]

\* The history of context id in store (none: the context does not exist).
HistoryOf(store, id) ==
    IF id \in DOMAIN store /\ "history" \in DOMAIN store[id]
    THEN store[id].history
    ELSE <<>>

\* Sequence old is a prefix of sequence new.
IsPrefix(old, new) ==
    /\ Len(old) <= Len(new)
    /\ \A i \in 1 .. Len(old) : new[i] = old[i]

\* The last operation was update_context or set_test_data.
Mutated == last_call.op \in {"update_context", "set_test_data"}

\* C12: the history of a context is append-only: after update_context or
\* set_test_data with any patch, the history before the call is a prefix of
\* the history after it.
C12_HistoryIsAppendOnly ==
    Mutated =>
        IsPrefix(HistoryOf(before, last_call.id),
                 HistoryOf(test_contexts, last_call.id))

\* The last operation was import_context(id, export_context(id)), which
\* returned, on a context that existed.
RoundTripped ==
    /\ last_call.op = "round_trip"
    /\ "raised" \notin DOMAIN last_call
    /\ last_call.id \in DOMAIN before

\* Records old and new are equal in every field but imported_at, which new has.
SameButMarker(old, new) ==
    /\ DOMAIN new = DOMAIN old \cup {"imported_at"}
    /\ \A k \in DOMAIN old \ {"imported_at"} : new[k] = old[k]

\* Every value of the context's test data is a JSON value: json.dumps can
\* write it and json.loads reads the same value back.
JsonNative(context) ==
    \A k \in DOMAIN TestDataOf(context) :
        /\ Serializable(context.test_data[k])
        /\ Encoded(context.test_data[k]) = context.test_data[k]

ImportedText ==
    /\ last_call.op = "import_context"
    /\ "raised" \notin DOMAIN last_call

\* C14: import_context(id, data) replaces the record at id wholesale: the
\* record has the fields of data and imported_at, with id the target id,
\* a field of the prior record that is not in data is gone, and the records
\* at the other ids are unchanged.
C14_ImportReplacesWholesale ==
    ImportedText =>
        LET id == last_call.id
            data == JsonLoads(last_call.text)
            new == test_contexts[id]
        IN /\ DOMAIN new = DOMAIN data \cup {"id", "imported_at"}
           /\ \A k \in DOMAIN data \ {"id", "imported_at"} : new[k] = data[k]
           /\ new.id = id
           /\ new.imported_at = now
           /\ DOMAIN test_contexts = DOMAIN before \cup {id}
           /\ \A other \in DOMAIN before \ {id} : test_contexts[other] = before[other]

\* C14's case: the empty object is imported over a record with a history
\* entry, next to another record.
C14_Witness ==
    /\ ImportedText
    /\ last_call.text = EmptyObject
    /\ last_call.id \in DOMAIN before
    /\ Len(HistoryOf(before, last_call.id)) = 1
    /\ DOMAIN before # {last_call.id}

\* C27: update_context appends exactly one history entry, holding the patch's
\* last_test and last_result, if and only if the patch has a last_result; a
\* patch without last_result leaves the history unchanged; every other key of
\* the patch but test_data overwrites the record's field of that name.
C27_HistoryEntryIffLastResult ==
    /\ last_call.op = "update_context"
    /\ "raised" \notin DOMAIN last_call
    => LET p == last_call.updates
           old == HistoryOf(before, last_call.id)
           new == HistoryOf(test_contexts, last_call.id)
       IN /\ IF "last_result" \in p.has
             THEN /\ Len(new) = Len(old) + 1
                  /\ IsPrefix(old, new)
                  /\ new[Len(new)].result = p.last_result
                  /\ new[Len(new)].test =
                         IF "last_test" \in p.has THEN p.last_test ELSE ""
             ELSE new = old
          /\ \A k \in p.has \ {"test_data"} :
                 test_contexts[last_call.id][k] = p[k]

\* C28: after any sequence of store operations, list_contexts returns one
\* summary per stored context, with only id, created_at, updated_at, the
\* history length and the last known URL, test_count being the length of the
\* context's history, and leaves the store unchanged.
C28_ListReturnsSummaries ==
    last_call.op = "list_contexts" =>
        /\ "raised" \notin DOMAIN last_call
        /\ DOMAIN last_call.result = DOMAIN test_contexts
        /\ \A id \in DOMAIN test_contexts :
               /\ DOMAIN last_call.result[id] =
                      {"id", "created_at", "updated_at", "test_count", "current_url"}
               /\ last_call.result[id].test_count = Len(HistoryOf(test_contexts, id))
        /\ test_contexts = before

\* C37: in every state of the store, the record stored under key k has its
\* id field equal to k.
C37_RecordIdIsItsKey ==
    \A k \in DOMAIN test_contexts :
        /\ "id" \in DOMAIN test_contexts[k]
        /\ test_contexts[k].id = k

\* C39: update_context is all-or-nothing: if the call raises, the context
\* record, its history and updated_at included, is what it was before the
\* call.
C39_UpdateIsAllOrNothing ==
    (/\ last_call.op = "update_context"
     /\ "raised" \in DOMAIN last_call
     /\ last_call.id \in DOMAIN before) =>
        test_contexts[last_call.id] = before[last_call.id]

\* C26: after an operation (update_context, set_test_data, import_context)
\* that changed a field of an existing record, the record's updated_at is the
\* time of that operation.
C26_UpdatedAtRefreshedOnEveryMutation ==
    /\ last_call.op \in {"update_context", "set_test_data", "import_context"}
    /\ "raised" \notin DOMAIN last_call
    /\ last_call.id \in DOMAIN before
    /\ test_contexts[last_call.id] # before[last_call.id]
    => /\ "updated_at" \in DOMAIN test_contexts[last_call.id]
       /\ test_contexts[last_call.id].updated_at = now

(***************************************************************************)
(* BDDAutomationServer.execute_test and run_scenario                       *)
(***************************************************************************)

\* The lines a scenario text is made of: a step and a line of whitespace.
LineKinds == {"go", " "}

\* The scenario texts: the sequences of 1 to MaxLines lines (a text of n lines
\* has n - 1 line breaks).
RECURSIVE TextsOf(_)
TextsOf(n) ==
    IF n = 0
    THEN {<<>>}
    ELSE {Append(text, line) : text \in TextsOf(n - 1), line \in LineKinds}

Scenarios == UNION {TextsOf(n) : n \in 1 .. MaxLines}

\* The test data handed to run_scenario.
ScenarioData == {[k1 |-> "v1"]}

\* The values of hash(scenario), a function of the text fixed for the process.
HashValues == {1, 2, -9999}

\* Line 220: the modulus of the scenario's context id.
HashModulus == 10000

\* str.strip() of a line is empty.
Blank(line) == line = " "

\* Line 230: line.strip().
StripLine(line) == IF Blank(line) THEN "" ELSE line

\* The least and the greatest of a set of numbers.
MinOf(S) == CHOOSE x \in S : \A y \in S : x <= y
MaxOf(S) == CHOOSE x \in S : \A y \in S : x >= y

\* Line 219: scenario.strip().split('\n'): the lines from the first to the
\* last line that is not blank, or one empty line if every line is blank.
StripSplit(text) ==
    LET steps == {i \in 1 .. Len(text) : ~Blank(text[i])}
    IN IF steps = {} THEN <<"">> ELSE SubSeq(text, MinOf(steps), MaxOf(steps))

\* A variant of NextStep: the loop executes every line.
NextStepEvery(lines, from) == IF from < Len(lines) THEN from + 1 ELSE 0

\* Lines 227-228: the index of the first line after `from` that the loop
\* executes (0: there is none).
NextStep(lines, from) ==
    LET later == {j \in from + 1 .. Len(lines) : StripLine(lines[j]) # ""}
    IN IF later = {} THEN 0 ELSE MinOf(later)

\* Line 220: f"scenario_{n}".
ScenarioContextId(n) ==
    CASE n = 1 -> "scenario_1"
      [] n = 2 -> "scenario_2"

\* The action lists the translator returns: n actions, each with its
\* description.
ActionList(n) == [i \in 1 .. n |-> [action |-> "click", description |-> i]]

\* What parse_test_description returns: a dict with up to n actions, or
\* one without the key.
ParsedOutputs(n) ==
    {[actions |-> ActionList(k), scenario_name |-> "s"] : k \in 0 .. n}
        \cup {[scenario_name |-> "s"]}

\* Line 154: parsed.get('actions', []).
ActionsOf(parsed) == IF "actions" \in DOMAIN parsed THEN parsed.actions ELSE <<>>

\* What BrowserEngine.execute_action does with an action: its branch returns
\* success, returns failure (an assertion that does not hold), or raises.
ActionKindsOfRun == {"ok", "fail", "raise"}

\* action_executor.py line 9: the retry_count of an ActionExecutor.
DefaultRetryCount == 3

\* browser_engine.py lines 42-68: what execute_action returns.
ActionResult(kind, act) ==
    CASE kind = "ok" -> [success |-> TRUE]
      [] kind = "fail" -> [success |-> FALSE, assertion |-> "target = value"]
      [] kind = "raise" -> [success |-> FALSE, error |-> "timeout", action |-> act]

\* page.url of page p.
Url(p) == [url_of |-> p]

\* No execute_test, no run_scenario in progress.
NoTest == [pc |-> "idle"]
NoScenario == [pc |-> "idle"]

\* Lines 143-147: execute_test(description, id) up to its first await, the
\* translator's.
BeginTest(line, id, nested) ==
    [pc |-> "parse", description |-> line, context_id |-> id, nested |-> nested,
     parsed |-> [scenario_name |-> "s"], page |-> 0, results |-> <<>>,
     invoked |-> 0, kinds |-> <<>>, attempts |-> <<>>]

\* A variant of Stops: a failed action does not end the loop.
StopsNever(res) == FALSE

\* Line 162: the action loop ends on a result that is not a success.
Stops(res) == ~res.success

\* A variant of ScenarioStops: a failed step does not end the loop.
ScenarioStopsNever(res) == FALSE

\* Line 234: the step loop ends on a test that is not a success.
ScenarioStops(res) == ~res.success

\* Lines 166-170: the patch execute_test hands to update_context.
TestPatch(frame) ==
    [has |-> {"last_test", "last_result", "current_url"}, test_data |-> <<>>,
     last_test |-> frame.description, last_result |-> frame.results,
     current_url |-> Url(frame.page), history |-> <<>>]

\* Lines 173-183: what execute_test returns.
TestResult(frame) ==
    [test |-> frame.description,
     success |-> \A i \in 1 .. Len(frame.results) : frame.results[i].result.success,
     scenario_name |-> frame.parsed.scenario_name,
     steps_executed |-> Len(frame.results),
     results |-> frame.results,
     final_url |-> Url(frame.page),
     context_id |-> frame.context_id]

\* Lines 237-244: what run_scenario returns.
ScenarioResult(frame) ==
    [scenario |-> frame.scenario,
     total_steps |-> Len(frame.lines),
     executed_steps |-> Len(frame.all_results),
     success |-> \A i \in 1 .. Len(frame.all_results) : frame.all_results[i].success,
     results |-> frame.all_results,
     test_data |-> frame.test_data]

\* A variant of DataPatch: the patch carries no test data.
DataPatchEmpty(data) ==
    [has |-> {}, test_data |-> <<>>, last_test |-> "", last_result |-> "",
     current_url |-> "", history |-> <<>>]

\* Line 223: the patch run_scenario hands to update_context.
DataPatch(data) ==
    [has |-> {"test_data"}, test_data |-> data, last_test |-> "", last_result |-> "",
     current_url |-> "", history |-> <<>>]

\* context_manager.py lines 30-51: self.contexts after update_context(id, p)
\* at time t.
UpdatedStore(store, id, p, t) ==
    LET got == WithContext(store, id, t)
    IN Put(got, id, UpdatedContext(got[id], p, t))

ServerInit ==
    /\ scenario = NoScenario
    /\ test = NoTest
    /\ hashes = <<>>
    /\ lines_read = 0
    /\ trace = <<>>

\* No tool call is in progress.
ServerIdle ==
    /\ test.pc = "idle"
    /\ scenario.pc = "idle"

\* The event of a test that returned.
TestEvent(frame, t) ==
    [ev |-> "test", context_id |-> frame.context_id, nested |-> frame.nested,
     result |-> TestResult(frame), at |-> t,
     parsed |-> Len(ActionsOf(frame.parsed)), invoked |-> frame.invoked,
     kinds |-> frame.kinds, attempts |-> frame.attempts, page |-> frame.page]

\* The event of a scenario that returned.
ScenarioEvent(frame) ==
    [ev |-> "scenario", scenario |-> frame.scenario, context_id |-> frame.context_id,
     translated |-> frame.translated, result |-> ScenarioResult(frame)]

\* Lines 230-244: run_scenario takes the result of its step: it returns if
\* the step failed or was the last, or hands the next step to execute_test.
Resume(done) ==
    LET frame == [scenario EXCEPT !.all_results = Append(@, done.result)]
        next == NextStep(frame.lines, frame.line)
    IN IF ScenarioStops(done.result) \/ next = 0
       THEN /\ scenario' = NoScenario
            /\ test' = NoTest
            /\ trace' = trace \o <<done, ScenarioEvent(frame)>>
       ELSE /\ scenario' = [frame EXCEPT !.line = next,
                                         !.translated = Append(@, next)]
            /\ test' = BeginTest(StripLine(frame.lines[next]), frame.context_id, TRUE)
            /\ trace' = Append(trace, done)

\* Lines 166-183: execute_test records the test in its context and returns.
TestReturns(frame) ==
    /\ now' = now + 1
    /\ before' = test_contexts
    /\ test_contexts' =
           UpdatedStore(test_contexts, frame.context_id, TestPatch(frame), now')
    /\ last_call' = [op |-> "update_context", id |-> frame.context_id,
                     updates |-> TestPatch(frame)]
    /\ IF frame.nested
       THEN Resume(TestEvent(frame, now'))
       ELSE /\ test' = NoTest
            /\ scenario' = scenario
            /\ trace' = Append(trace, TestEvent(frame, now'))

\* A fault leaves execute_test, and run_scenario if it is the caller.
TestRaises(fault) ==
    LET raised == [ev |-> "test_raised", context_id |-> test.context_id,
                   nested |-> test.nested, fault |-> fault, invoked |-> test.invoked]
    IN /\ test' = NoTest
       /\ scenario' = NoScenario
       /\ trace' = IF test.nested
                   THEN trace \o <<raised, [ev |-> "scenario_raised",
                                            scenario |-> scenario.scenario,
                                            context_id |-> scenario.context_id,
                                            lost |-> scenario.all_results]>>
                   ELSE Append(trace, raised)

\* The tool execute_test(description, id) is called.
CallExecuteTest(line, id) ==
    /\ ServerIdle
    /\ lines_read' = lines_read + 1
    /\ test' = BeginTest(line, id, FALSE)
    /\ UNCHANGED <<scenario, hashes, trace, storeVars, engineVars, serverOthers>>

\* Line 147: the translator returns; line 150 awaits the page.
ParseReturns(parsed) ==
    /\ test.pc = "parse"
    /\ test' = [test EXCEPT !.pc = "page", !.parsed = parsed]
    /\ UNCHANGED <<scenario, hashes, lines_read, trace, storeVars, engineVars,
                   serverOthers>>

\* Line 147: the translator raises.
ParseRaises ==
    /\ test.pc = "parse"
    /\ TestRaises("parse")
    /\ UNCHANGED <<hashes, lines_read, storeVars, engineVars, serverOthers>>

\* browser_engine.py lines 23-33: what get_or_create_page(id) leaves in
\* self.contexts and self.pages and with the driver, when nothing raises.
PageAcquired(id) ==
    IF HasPage(id)
    THEN UNCHANGED <<contexts, pages, driver_contexts, driver_pages>>
    ELSE /\ IF HasContext(id)
            THEN UNCHANGED <<contexts, driver_contexts>>
            ELSE /\ driver_contexts' = Append(driver_contexts, id)
                 /\ contexts' = Put(contexts, id, Len(driver_contexts) + 1)
         /\ driver_pages' = Append(driver_pages, contexts'[id])
         /\ pages' = Put(pages, id, Len(driver_pages) + 1)

\* Line 150: get_or_create_page returns the page. With no action to execute
\* the test returns, otherwise line 155 awaits the first action.
PageReturns ==
    /\ test.pc = "page"
    /\ PageAcquired(test.context_id)
    /\ LET frame == [test EXCEPT !.page = pages'[test.context_id]]
       IN IF ActionsOf(frame.parsed) = <<>>
          THEN TestReturns(frame)
          ELSE /\ test' = [frame EXCEPT !.pc = "actions", !.invoked = 1]
               /\ UNCHANGED <<scenario, trace, storeVars>>
    /\ UNCHANGED <<hashes, lines_read, tasks, returned, serverOthers>>

\* Line 150: get_or_create_page raises, at new_context() or at new_page(),
\* which leaves the context it was called on in self.contexts.
PageRaises(at) ==
    /\ test.pc = "page"
    /\ ~HasPage(test.context_id)
    /\ IF at = "new_context"
       THEN /\ ~HasContext(test.context_id)
            /\ UNCHANGED <<contexts, driver_contexts>>
       ELSE IF HasContext(test.context_id)
            THEN UNCHANGED <<contexts, driver_contexts>>
            ELSE /\ driver_contexts' = Append(driver_contexts, test.context_id)
                 /\ contexts' = Put(contexts, test.context_id, Len(driver_contexts) + 1)
    /\ TestRaises("page")
    /\ UNCHANGED <<pages, driver_pages, tasks, returned>>
    /\ UNCHANGED <<hashes, lines_read, storeVars, serverOthers>>

\* Lines 155-163: execute_action returns the result of the action, which is
\* recorded. The loop ends on a failure or after the last action, and the
\* test returns; otherwise line 155 awaits the next action.
ActionReturns(kind) ==
    /\ test.pc = "actions"
    /\ LET acts == ActionsOf(test.parsed)
           act == acts[test.invoked]
           res == ActionResult(kind, act)
           frame == [test EXCEPT
                        !.results = Append(@, [step |-> act.description, result |-> res]),
                        !.kinds = Append(@, kind),
                        !.attempts = Append(@, 1)]
       IN IF Stops(res) \/ test.invoked = Len(acts)
          THEN TestReturns(frame)
          ELSE /\ test' = [frame EXCEPT !.invoked = @ + 1]
               /\ UNCHANGED <<scenario, trace, storeVars>>
    /\ UNCHANGED <<hashes, lines_read, engineVars, serverOthers>>

\* The tool run_scenario(text, data) is called, the hash of the text being
\* h: lines 219-230 up to the first await, the translator's for the first
\* step, or up to the return if the text has no step.
CallRunScenario(text, data, h) ==
    /\ ServerIdle
    /\ lines_read' = lines_read + Len(text)
    /\ text \in DOMAIN hashes => h = hashes[text]
    /\ hashes' = Put(hashes, text, h)
    /\ LET id == ScenarioContextId(h % HashModulus)
           lines == StripSplit(text)
           first == NextStep(lines, 0)
           frame == [pc |-> "steps", scenario |-> text, lines |-> lines,
                     context_id |-> id, test_data |-> data, line |-> first,
                     translated |-> IF first = 0 THEN <<>> ELSE <<first>>,
                     all_results |-> <<>>]
       IN /\ now' = now + 1
          /\ before' = test_contexts
          /\ test_contexts' = UpdatedStore(test_contexts, id, DataPatch(data), now')
          /\ last_call' = [op |-> "update_context", id |-> id,
                           updates |-> DataPatch(data)]
          /\ IF first = 0
             THEN /\ scenario' = NoScenario
                  /\ test' = NoTest
                  /\ trace' = Append(trace, ScenarioEvent(frame))
             ELSE /\ scenario' = frame
                  /\ test' = BeginTest(StripLine(lines[first]), id, TRUE)
                  /\ trace' = trace
    /\ UNCHANGED <<engineVars, serverOthers>>

\* The steps of a test in progress, the translator returning up to n actions
\* and execute_action doing what is in kinds.
TestSteps(n, kinds) ==
    \/ \E parsed \in ParsedOutputs(n) : ParseReturns(parsed)
    \/ ParseRaises
    \/ PageReturns
    \/ \E at \in {"new_context", "new_page"} : PageRaises(at)
    \/ \E kind \in kinds : ActionReturns(kind)

\* The server called with execute_test, one call after the other.
TestNext ==
    \/ /\ lines_read < MaxTests
       /\ \E id \in ContextIds : CallExecuteTest("go", id)
    \/ TestSteps(MaxActions, ActionKindsOfRun)

\* Lines 253-256: the dict get_context_info stores under current_page for
\* page p.
CurrentPage(p) == [url |-> Url(p), title |-> "t"]

\* Lines 249-256: self.contexts after get_context_info(id) at time t: the
\* context is created if it does not exist, and if the session has a page
\* the context gets the key current_page.
WithPageInfo(store, id, t) ==
    LET got == WithContext(store, id, t)
    IN IF HasPage(id)
       THEN Put(got, id, Put(got[id], "current_page", CurrentPage(pages[id])))
       ELSE got

\* The tool get_test_context(id) is called: get_context_info returns the
\* context. The clock is read only when the context is created.
GetContextInfo(id) ==
    /\ ServerIdle
    /\ now' = IF id \in DOMAIN test_contexts THEN now ELSE now + 1
    /\ before' = test_contexts
    /\ test_contexts' = WithPageInfo(test_contexts, id, now')
    /\ last_call' = [op |-> "get_context_info", id |-> id]
    /\ UNCHANGED <<serverVars, engineVars, serverOthers>>

\* The server called with execute_test and get_test_context, one call after
\* the other, each test of one action at most.
InfoNext ==
    \/ /\ lines_read < MaxTests
       /\ \E id \in ContextIds : CallExecuteTest("go", id)
    \/ TestSteps(1, {"ok", "fail"})
    \/ \E id \in ContextIds : GetContextInfo(id)

\* The server called with run_scenario and execute_test, one call after the
\* other, each test of one action at most.
ScenarioNext ==
    \/ /\ lines_read < MaxLines
       /\ CallExecuteTest("go", "scenario_1")
    \/ \E text \in Scenarios, data \in ScenarioData, h \in HashValues :
           /\ lines_read + Len(text) <= MaxLines
           /\ CallRunScenario(text, data, h)
    \/ TestSteps(1, {"ok", "fail"})

(***************************************************************************)
(* BDDAutomationServer.execute_test, called by concurrent tasks            *)
(***************************************************************************)

\* No task is in execute_test.
RunsInit == runs = [t \in Tasks |-> NoTest]

\* Task t leaves execute_test.
Left(frame) == [frame EXCEPT !.pc = "returned"]

\* Lines 166-183: execute_test of task t records the test and returns.
RunReturns(t, frame) ==
    /\ now' = now + 1
    /\ before' = test_contexts
    /\ test_contexts' =
           UpdatedStore(test_contexts, frame.context_id, TestPatch(frame), now')
    /\ last_call' = [op |-> "update_context", id |-> frame.context_id,
                     updates |-> TestPatch(frame)]
    /\ runs' = [runs EXCEPT ![t] = Left(frame)]

\* Lines 150-155: task t has its page; with no action to execute the test
\* returns, otherwise the first action is dispatched and awaited.
RunHasPage(t, frame) ==
    IF ActionsOf(frame.parsed) = <<>>
    THEN RunReturns(t, frame)
    ELSE /\ runs' = [runs EXCEPT ![t] = [frame EXCEPT !.pc = "actions", !.invoked = 1]]
         /\ UNCHANGED storeVars

\* Task t calls execute_test(description, id): lines 143-147 up to the
\* translator's await.
RunCalled(t, id) ==
    /\ runs[t].pc = "idle"
    /\ runs' = [runs EXCEPT ![t] = BeginTest("go", id, FALSE)]
    /\ UNCHANGED <<engineVars, storeVars, runOthers>>

\* Line 147: the translator returns to task t.
RunParsed(t, parsed) ==
    /\ runs[t].pc = "parse"
    /\ runs' = [runs EXCEPT ![t].pc = "page", ![t].parsed = parsed]
    /\ UNCHANGED <<engineVars, storeVars, runOthers>>

\* Line 150 and browser_engine.py lines 23-27 up to the first await: the page
\* exists and task t goes on with it, or the task awaits new_context(), or the
\* context exists and the task awaits its new_page().
RunAsksPage(t) ==
    /\ runs[t].pc = "page"
    /\ LET id == runs[t].context_id
       IN IF HasPage(id)
          THEN RunHasPage(t, [runs[t] EXCEPT !.page = pages[id]])
          ELSE /\ runs' = [runs EXCEPT ![t] =
                     IF HasContext(id)
                     THEN Put([runs[t] EXCEPT !.pc = "new_page"], "context", contexts[id])
                     ELSE [runs[t] EXCEPT !.pc = "new_context"]]
               /\ UNCHANGED storeVars
    /\ UNCHANGED <<engineVars, runOthers>>

\* browser_engine.py lines 25-27: new_context() returns to task t; the context
\* is stored, read back and its new_page() awaited.
RunContextCreated(t) ==
    /\ runs[t].pc = "new_context"
    /\ driver_contexts' = Append(driver_contexts, runs[t].context_id)
    /\ contexts' = Put(contexts, runs[t].context_id, Len(driver_contexts) + 1)
    /\ runs' = [runs EXCEPT ![t] =
           Put([runs[t] EXCEPT !.pc = "new_page"], "context",
               contexts'[runs[t].context_id])]
    /\ UNCHANGED <<pages, driver_pages, tasks, returned, storeVars, runOthers>>

\* browser_engine.py lines 27-33: new_page() returns to task t; the page is
\* stored, read back and returned to execute_test.
RunPageCreated(t) ==
    /\ runs[t].pc = "new_page"
    /\ driver_pages' = Append(driver_pages, runs[t].context)
    /\ pages' = Put(pages, runs[t].context_id, Len(driver_pages) + 1)
    /\ RunHasPage(t, [runs[t] EXCEPT !.page = pages'[runs[t].context_id]])
    /\ UNCHANGED <<contexts, driver_contexts, tasks, returned, runOthers>>

\* Lines 155-163: execute_action returns to task t the result of its action,
\* which is recorded; the test returns on a failure or after the last
\* action, otherwise the next action is dispatched and awaited.
RunActionReturns(t, kind) ==
    /\ runs[t].pc = "actions"
    /\ LET acts == ActionsOf(runs[t].parsed)
           act == acts[runs[t].invoked]
           res == ActionResult(kind, act)
           frame == [runs[t] EXCEPT
                        !.results = Append(@, [step |-> act.description, result |-> res]),
                        !.kinds = Append(@, kind),
                        !.attempts = Append(@, 1)]
       IN IF Stops(res) \/ runs[t].invoked = Len(acts)
          THEN RunReturns(t, frame)
          ELSE /\ runs' = [runs EXCEPT ![t] = [frame EXCEPT !.invoked = @ + 1]]
               /\ UNCHANGED storeVars
    /\ UNCHANGED <<engineVars, runOthers>>

\* The server with execute_test called once by each of the concurrent tasks,
\* which suspend at each await.
RunsNext ==
    \E t \in Tasks :
        \/ \E id \in SessionIds : RunCalled(t, id)
        \/ \E parsed \in ParsedOutputs(MaxActions) : RunParsed(t, parsed)
        \/ RunAsksPage(t)
        \/ RunContextCreated(t)
        \/ RunPageCreated(t)
        \/ \E kind \in {"ok", "fail"} : RunActionReturns(t, kind)

(***************************************************************************)
(* BDDAutomationServer.call_tool                                           *)
(***************************************************************************)

\* Lines 101-123: the names call_tool knows.
ToolNames == {"execute_test", "validate_page", "run_scenario", "get_test_context"}

\* The names the host calls call_tool with.
HostNames == ToolNames \cup {"unknown_tool"}

\* The arguments the host calls call_tool with.
HostArguments == {<<>>, [context_id |-> "s1"]}

\* Lines 101-123: the operation call_tool awaits for a name it knows.
Operation(name) ==
    CASE name = "execute_test" -> "execute_test"
      [] name = "validate_page" -> "validate_page"
      [] name = "run_scenario" -> "run_scenario"
      [] name = "get_test_context" -> "get_context_info"

\* What an operation returns: a dict of a value that json.dumps writes as it
\* is, writes as a list, or cannot write.
OperationResults == {[success |-> TRUE, data |-> v] : v \in PyValues \ {"['a', 'b']"}}

\* The faults an operation raises.
OperationFaults == {"TimeoutError", "JSONDecodeError"}

\* A variant of ToolCatches: the handler of call_tool catches nothing.
ToolCatchesNone(fault) == FALSE

\* Line 132: except Exception catches the faults of the operations and the
\* TypeError of json.dumps.
ToolCatches(fault) == fault \in OperationFaults \cup {"TypeError"}

\* Line 129: json.dumps can write the result.
CanDumpResult(res) == "data" \in DOMAIN res => Serializable(res.data)

\* Lines 129, 135: the text json.dumps writes for a dict.
DumpsResult(res) ==
    [object |-> [key \in DOMAIN res |->
                    IF key = "data" THEN Encoded(res[key]) ELSE res[key]]]

\* Lines 127-130, 133-140: the list of one TextContent that call_tool returns.
TextContents(text) == <<[type |-> "text", text |-> text]>>

\* Line 124: the result for a name call_tool does not know.
UnknownTool(name) == [error |-> "Unknown tool", name |-> name]

\* Lines 135-139: the result for a fault.
ErrorResult(fault, name, arguments) ==
    [error |-> fault, tool |-> name, arguments |-> arguments]

NoToolCall == [pc |-> "idle"]

ToolInit ==
    /\ tool_call = NoToolCall
    /\ host = <<>>

\* What call_tool gave the host: the contents it returned, or the fault that
\* left it.
Given(frame, outcome, contents, fault) ==
    [name |-> frame.name, arguments |-> frame.arguments, invoked |-> frame.invoked,
     outcome |-> outcome, contents |-> contents, escaped |-> fault]

\* Lines 132-140: a fault in the try block is caught and returned as a
\* result, or leaves call_tool.
Handled(frame, outcome, fault) ==
    IF ToolCatches(fault)
    THEN Given(frame, outcome,
               TextContents(DumpsResult(ErrorResult(fault, frame.name, frame.arguments))),
               "none")
    ELSE Given(frame, outcome, <<>>, fault)

\* Lines 126-130: the result is written as text and returned; a result that
\* json.dumps cannot write raises TypeError in the try block.
Answered(frame, outcome, res) ==
    IF CanDumpResult(res)
    THEN Given(frame, outcome, TextContents(DumpsResult(res)), "none")
    ELSE Handled(frame, outcome, "TypeError")

\* The host calls call_tool(name, arguments) with a name it knows: lines
\* 100-122 up to the await of the operation.
CallKnownTool(name, arguments) ==
    /\ tool_call.pc = "idle"
    /\ Len(host) < MaxToolCalls
    /\ name \in ToolNames
    /\ tool_call' = [pc |-> "operation", name |-> name, arguments |-> arguments,
                     invoked |-> Operation(name)]
    /\ host' = host
    /\ UNCHANGED toolOthers

\* The host calls call_tool(name, arguments) with a name it does not know:
\* lines 123-130, no operation is awaited.
CallUnknownTool(name, arguments) ==
    /\ tool_call.pc = "idle"
    /\ Len(host) < MaxToolCalls
    /\ name \notin ToolNames
    /\ tool_call' = NoToolCall
    /\ host' = Append(host,
                      Answered([name |-> name, arguments |-> arguments,
                                invoked |-> "none"],
                               [unknown |-> name], UnknownTool(name)))
    /\ UNCHANGED toolOthers

\* The operation returns res.
OperationReturns(res) ==
    /\ tool_call.pc = "operation"
    /\ tool_call' = NoToolCall
    /\ host' = Append(host, Answered(tool_call, [returned |-> res], res))
    /\ UNCHANGED toolOthers

\* The operation raises fault.
OperationRaises(fault) ==
    /\ tool_call.pc = "operation"
    /\ tool_call' = NoToolCall
    /\ host' = Append(host, Handled(tool_call, [raised |-> fault], fault))
    /\ UNCHANGED toolOthers

\* call_tool, one call after the other.
ToolNext ==
    \/ \E name \in HostNames, arguments \in HostArguments :
           CallKnownTool(name, arguments)
    \/ \E name \in HostNames, arguments \in HostArguments :
           CallUnknownTool(name, arguments)
    \/ \E res \in OperationResults : OperationReturns(res)
    \/ \E fault \in OperationFaults : OperationRaises(fault)

(***************************************************************************)
(* BrowserEngine.initialize and cleanup                                    *)
(***************************************************************************)

\* What cleanup releases: a browsing context, the browser, the driver.
ClosedContext(c) == [kind |-> "context", handle |-> c]
ClosedBrowser == [kind |-> "browser", handle |-> 0]
StoppedDriver == [kind |-> "driver", handle |-> 0]

\* A variant of HasBrowser: cleanup closes the browser without the test.
HasBrowserAlways(b) == TRUE

\* Line 161: if self.browser.
HasBrowser(b) == b # "None"

\* Line 163: if self.playwright.
HasDriver(p) == p # "None"

\* Lines 159-164: what cleanup awaits next, with the contexts of `pending`
\* still to close: the close of a context, of the browser, the stop of the
\* driver, or nothing more.
Phase(pending, b, p) ==
    IF pending # {} THEN "contexts"
    ELSE IF HasBrowser(b) THEN "browser"
    ELSE IF HasDriver(p) THEN "driver"
    ELSE "cleaned"

\* Lines 6-10: the engine as constructed.
LifeInit ==
    /\ playwright = "None"
    /\ browser = "None"
    /\ life = [pc |-> "new", pending |-> {}]
    /\ released = <<>>

\* Line 14: initialize awaits the start of the driver.
InitializeBegin ==
    /\ life.pc = "new"
    /\ life' = [life EXCEPT !.pc = "starting"]
    /\ UNCHANGED <<playwright, browser, released, engineVars, lifeOthers>>

\* Lines 14-15: the driver is started; initialize awaits the launch of the
\* browser.
DriverStarts ==
    /\ life.pc = "starting"
    /\ playwright' = "started"
    /\ life' = [life EXCEPT !.pc = "launching"]
    /\ UNCHANGED <<browser, released, engineVars, lifeOthers>>

\* Line 14: the start of the driver raises.
DriverFails ==
    /\ life.pc = "starting"
    /\ life' = [life EXCEPT !.pc = "failed"]
    /\ UNCHANGED <<playwright, browser, released, engineVars, lifeOthers>>

\* Lines 15-18: the browser is launched.
BrowserLaunches ==
    /\ life.pc = "launching"
    /\ browser' = "launched"
    /\ life' = [life EXCEPT !.pc = "ready"]
    /\ UNCHANGED <<playwright, released, engineVars, lifeOthers>>

\* Line 15: the launch of the browser raises.
LaunchFails ==
    /\ life.pc = "launching"
    /\ life' = [life EXCEPT !.pc = "failed"]
    /\ UNCHANGED <<playwright, browser, released, engineVars, lifeOthers>>

\* get_or_create_page(id) on an engine without browser: line 25 raises
\* AttributeError on self.browser.new_context, nothing is stored.
CallWithoutBrowser(t, id) ==
    /\ life.pc \in {"new", "failed"}
    /\ tasks[t].pc = "idle"
    /\ CallsBegun < MaxCalls
    /\ returned' = Append(returned, Raised(id, "new_context"))
    /\ UNCHANGED <<contexts, pages, tasks, driver_contexts, driver_pages>>
    /\ UNCHANGED <<lifeVars, lifeOthers>>

\* get_or_create_page(id) on an engine that initialize has made ready.
CallWithBrowser(t, id) ==
    /\ life.pc = "ready"
    /\ BeginCall(t, id)

\* Lines 157-160: cleanup is called, with no get_or_create_page in progress,
\* and awaits the first thing it has to release.
CleanupBegin ==
    /\ life.pc \in {"new", "failed", "ready"}
    /\ AllIdle
    /\ LET pending == {contexts[id] : id \in DOMAIN contexts}
       IN life' = [pc |-> Phase(pending, browser, playwright), pending |-> pending]
    /\ UNCHANGED <<playwright, browser, released, engineVars, lifeOthers>>

\* Line 160: a context is closed (self.contexts.values() in any order).
ContextCloses(c) ==
    /\ life.pc = "contexts"
    /\ c \in life.pending
    /\ released' = Append(released, ClosedContext(c))
    /\ life' = [pc |-> Phase(life.pending \ {c}, browser, playwright),
                pending |-> life.pending \ {c}]
    /\ UNCHANGED <<playwright, browser, engineVars, lifeOthers>>

\* Line 162: the browser is closed; on an engine without browser the call
\* raises AttributeError.
BrowserCloses ==
    /\ life.pc = "browser"
    /\ IF browser = "None"
       THEN /\ life' = [life EXCEPT !.pc = "raised"]
            /\ released' = released
       ELSE /\ life' = [life EXCEPT !.pc = IF HasDriver(playwright)
                                           THEN "driver"
                                           ELSE "cleaned"]
            /\ released' = Append(released, ClosedBrowser)
    /\ UNCHANGED <<playwright, browser, engineVars, lifeOthers>>

\* Line 164: the driver is stopped.
DriverStops ==
    /\ life.pc = "driver"
    /\ released' = Append(released, StoppedDriver)
    /\ life' = [life EXCEPT !.pc = "cleaned"]
    /\ UNCHANGED <<playwright, browser, engineVars, lifeOthers>>

\* The engine from its construction to the end of cleanup, with
\* get_or_create_page called by concurrent tasks in between.
LifeNext ==
    \/ InitializeBegin
    \/ DriverStarts
    \/ DriverFails
    \/ BrowserLaunches
    \/ LaunchFails
    \/ \E t \in Tasks, id \in SessionIds : CallWithoutBrowser(t, id)
    \/ \E t \in Tasks, id \in SessionIds : CallWithBrowser(t, id)
    \/ \E t \in Tasks : EngineSteps(t)
    \/ CleanupBegin
    \/ \E c \in life.pending : ContextCloses(c)
    \/ BrowserCloses
    \/ DriverStops

(***************************************************************************)
(* Claims about BDDAutomationServer                                        *)
(***************************************************************************)

\* The context ids of the server's runs.
RunIds == ContextIds \cup {"scenario_2"}

\* The tests that returned against context id, in the order they returned.
TestsOn(id) ==
    LET On(e) == e.ev = "test" /\ e.context_id = id
    IN SelectSeq(trace, On)

\* C11: after N execute_test calls have returned against one context id,
\* called as a tool or by run_scenario, the history of that context has N
\* entries, the i-th holding the time, the description and the results of
\* the i-th call that returned.
C11_HistoryHoldsEveryCompletedTest ==
    \A id \in RunIds :
        LET done == TestsOn(id)
            history == HistoryOf(test_contexts, id)
        IN /\ Len(history) = Len(done)
           /\ \A i \in 1 .. Len(done) :
                  history[i] = [timestamp |-> done[i].at,
                                test |-> done[i].result.test,
                                result |-> done[i].result.results]

\* C11's case: two tests returned against one context id, one called as a
\* tool and one by run_scenario, one of them failed.
C11_Witness ==
    \E id \in RunIds :
        /\ Len(TestsOn(id)) = 2
        /\ TestsOn(id)[1].nested # TestsOn(id)[2].nested
        /\ TestsOn(id)[1].result.success # TestsOn(id)[2].result.success
        /\ Len(HistoryOf(test_contexts, id)) = 2

\* The run_scenario calls that returned.
ScenariosRun == {n \in 1 .. Len(trace) : trace[n].ev = "scenario"}

\* The steps of a scenario result that failed.
FailedSteps(res) == {i \in 1 .. Len(res.results) : ~res.results[i].success}

\* The indexes of the lines that are not blank, in line order.
StepIndexes(lines) ==
    LET steps == {i \in 1 .. Len(lines) : StripLine(lines[i]) # ""}
    IN [n \in 1 .. Cardinality(steps) |->
           CHOOSE i \in steps : Cardinality({j \in steps : j < i}) = n - 1]

\* C15: a run_scenario whose k-th step is the first with success false stops
\* there: the lines handed to execute_test are the first k steps in line
\* order and no later one, executed_steps and the length of results are k,
\* and the scenario's success is false.
C15_ScenarioStopsAtFirstFailure ==
    \A n \in ScenariosRun :
        LET res == trace[n].result
        IN FailedSteps(res) # {} =>
               LET k == MinOf(FailedSteps(res))
               IN /\ res.executed_steps = k
                  /\ Len(res.results) = k
                  /\ ~res.success
                  /\ k <= Len(StepIndexes(StripSplit(trace[n].scenario)))
                  /\ trace[n].translated =
                         SubSeq(StepIndexes(StripSplit(trace[n].scenario)), 1, k)

\* C15's case: of three steps the second failed, and two were executed.
C15_Witness ==
    \E n \in ScenariosRun :
        /\ trace[n].scenario = <<"go", "go", "go">>
        /\ FailedSteps(trace[n].result) = {2}
        /\ trace[n].result.executed_steps = 2

\* C16 as stated: executed_steps <= total_steps, and the two are equal only
\* when the scenario's success is true.
C16_AllExecutedOnlyOnSuccess ==
    \A n \in ScenariosRun :
        LET res == trace[n].result
        IN /\ res.executed_steps <= res.total_steps
           /\ res.executed_steps = res.total_steps => res.success

\* C16, amended: executed_steps <= total_steps, and the two are equal only
\* when no step before the last one failed.
C16_AllExecutedOnlyIfNoEarlierFailure ==
    \A n \in ScenariosRun :
        LET res == trace[n].result
        IN /\ res.executed_steps <= res.total_steps
           /\ res.executed_steps = res.total_steps =>
                  \A i \in 1 .. res.executed_steps - 1 : res.results[i].success

\* C16's case: every line of a scenario of two lines was executed and the
\* last step failed.
C16_Witness ==
    \E n \in ScenariosRun :
        /\ trace[n].result.total_steps = 2
        /\ trace[n].result.executed_steps = 2
        /\ FailedSteps(trace[n].result) = {2}

\* C17: total_steps is the number of lines of the scenario text that are not
\* blank, so a scenario whose steps all succeed has executed_steps =
\* total_steps.
C17_TotalIsNonBlankLines ==
    \A n \in ScenariosRun :
        LET res == trace[n].result
        IN /\ res.total_steps = Len(StepIndexes(trace[n].scenario))
           /\ res.success => res.executed_steps = res.total_steps

\* C18: run_scenario calls with distinct texts have distinct context ids,
\* and calls with the same text have the same context id.
C18_DistinctTextsDistinctSessions ==
    \A m, n \in ScenariosRun :
        trace[m].scenario # trace[n].scenario <=>
            trace[m].context_id # trace[n].context_id

\* The execute_test calls that returned.
TestsRun == {n \in 1 .. Len(trace) : trace[n].ev = "test"}

\* C19: execute_test executes the actions in list order up to and including
\* the first whose result has success false and no later one: results holds
\* one record for each, steps_executed is the length of results, and success
\* is true exactly when every executed action succeeded.
C19_TestStopsAtFirstFailure ==
    \A n \in TestsRun :
        LET res == trace[n].result
            len == Len(res.results)
        IN /\ res.steps_executed = len
           /\ trace[n].invoked = len
           /\ len <= trace[n].parsed
           /\ \A i \in 1 .. len : res.results[i].step = i
           /\ \A i \in 1 .. len - 1 : res.results[i].result.success
           /\ len < trace[n].parsed => ~res.results[len].result.success
           /\ res.success <=> \A i \in 1 .. len : res.results[i].result.success

\* C19's case: of two actions the first failed and the second was not
\* executed.
C19_Witness ==
    \E n \in TestsRun :
        /\ trace[n].parsed = 2
        /\ Len(trace[n].result.results) = 1
        /\ trace[n].invoked = 1
        /\ ~trace[n].result.success

\* C20: an action of execute_test that raises is attempted retry_count times
\* and then recorded as a failed result, and the fault does not leave
\* execute_test.
C20_FaultIsRetriedThenRecorded ==
    /\ \A n \in TestsRun :
           \A i \in 1 .. Len(trace[n].kinds) :
               trace[n].kinds[i] = "raise" =>
                   /\ ~trace[n].result.results[i].result.success
                   /\ trace[n].attempts[i] = DefaultRetryCount
    /\ \A n \in 1 .. Len(trace) :
           trace[n].ev = "test_raised" => trace[n].fault # "action"

\* C21: every failed result of execute_test names the step that failed and
\* holds, for that step, the error text and the attempt count.
C21_FailureCarriesErrorAndAttempts ==
    \A n \in TestsRun :
        ~trace[n].result.success =>
            LET res == trace[n].result
                last == res.results[Len(res.results)]
            IN /\ ~last.result.success
               /\ last.step = Len(res.results)
               /\ "error" \in DOMAIN last.result
               /\ "attempts" \in DOMAIN last.result

\* C22: when the translator or the acquisition of the page fails, no action
\* is executed and no history entry is made, execute_test reports a failed
\* test, and a run_scenario that holds the step returns a failed result with
\* the results of its earlier steps.
C22_FaultIsWholeTestFailure ==
    /\ \A id \in RunIds : Len(HistoryOf(test_contexts, id)) = Len(TestsOn(id))
    /\ \A n \in 1 .. Len(trace) :
           /\ trace[n].ev = "test_raised" => trace[n].invoked = 0
           /\ trace[n].ev # "scenario_raised"

\* C23: call_tool gives the host exactly one text content and no fault: for a
\* name it knows and an operation that returned, the text of the result; for
\* any other name, an "Unknown tool" error with no operation invoked; for an
\* operation that raised, an error that names the tool.
C23_CallToolAlwaysAnswers ==
    \A n \in 1 .. Len(host) :
        LET given == host[n]
        IN /\ given.escaped = "none"
           /\ Len(given.contents) = 1
           /\ given.contents[1].type = "text"
           /\ given.name \notin ToolNames =>
                  /\ given.invoked = "none"
                  /\ given.contents[1].text.object.error = "Unknown tool"
           /\ given.name \in ToolNames =>
                  /\ given.invoked = Operation(given.name)
                  /\ "raised" \in DOMAIN given.outcome =>
                         /\ given.contents[1].text.object.error = given.outcome.raised
                         /\ given.contents[1].text.object.tool = given.name
                  /\ ("returned" \in DOMAIN given.outcome
                          /\ Serializable(given.outcome.returned.data)) =>
                         given.contents[1].text.object.success

\* C23's case: an operation raised in one call and the tool was not known in
\* another.
C23_Witness ==
    /\ \E n \in 1 .. Len(host) :
           /\ "raised" \in DOMAIN host[n].outcome
           /\ host[n].contents[1].text.object.tool = host[n].name
    /\ \E n \in 1 .. Len(host) : host[n].name \notin ToolNames

\* C29: from before the first step of run_scenario is translated until its
\* last step has run, every key of the scenario's test_data is in the test
\* data of the session's context, with the scenario's value.
C29_TestDataSeededBeforeSteps ==
    scenario.pc = "steps" =>
        /\ scenario.context_id \in DOMAIN test_contexts
        /\ \A k \in DOMAIN scenario.test_data :
               /\ k \in DOMAIN TestDataOf(test_contexts[scenario.context_id])
               /\ test_contexts[scenario.context_id].test_data[k] = scenario.test_data[k]

\* C29 happens: a scenario with test data has run a step, which was recorded
\* in the context, and an action of its next step is awaited.
C29_Witness ==
    /\ scenario.pc = "steps"
    /\ scenario.test_data # <<>>
    /\ Len(scenario.all_results) >= 1
    /\ Len(HistoryOf(test_contexts, scenario.context_id)) >= 1
    /\ test.pc = "actions"

(***************************************************************************)
(* Claims about BrowserEngine.initialize and cleanup                       *)
(***************************************************************************)

\* The positions of `released` at which cleanup released x.
ReleasedAt(x) == {i \in 1 .. Len(released) : released[i] = x}

\* The contexts the store created: those browser.new_context() returned.
CreatedContexts == 1 .. Len(driver_contexts)

\* C24: cleanup closes every browsing context first, then the browser, then
\* the driver: the browser is closed only after all contexts created by the
\* store have been closed, and the driver is stopped only after the browser
\* is closed.
C24_ContextsThenBrowserThenDriver ==
    /\ \A b \in ReleasedAt(ClosedBrowser) :
           \A c \in CreatedContexts :
               \E i \in ReleasedAt(ClosedContext(c)) : i < b
    /\ \A d \in ReleasedAt(StoppedDriver) :
           browser # "None" => \E b \in ReleasedAt(ClosedBrowser) : b < d

\* C25: in every state reached from an initialize that was not called or that
\* failed (no driver, or a driver and no browser), cleanup does not raise and,
\* once it has ended, has released exactly what was acquired.
C25_CleanupSafeWithoutBrowser ==
    browser = "None" =>
        /\ life.pc # "raised"
        /\ life.pc = "cleaned" =>
               released = IF playwright = "None" THEN <<>> ELSE <<StoppedDriver>>

\* C25 happens: cleanup ended on an engine whose driver was started and whose
\* browser failed to launch, after a call of get_or_create_page raised.
C25_Witness ==
    /\ life.pc = "cleaned"
    /\ playwright = "started"
    /\ browser = "None"
    /\ released = <<StoppedDriver>>
    /\ returned # <<>>

\* C38: get_context_info is read-only for an existing context: after it
\* returns, the stored record at that id has the fields and values it had
\* before, and no session page or browsing context has been created.
C38_ContextInfoIsReadOnly ==
    (last_call.op = "get_context_info" /\ last_call.id \in DOMAIN before) =>
        test_contexts[last_call.id] = before[last_call.id]

(***************************************************************************)
(* Claims about concurrent calls of execute_test                           *)
(***************************************************************************)

\* C36: when several calls of execute_test for one session id run
\* concurrently, at most one action is in flight on the session's page at
\* any time.
C36_OneActionInFlightPerPage ==
    \A t \in Tasks, u \in Tasks :
        (/\ t # u
         /\ runs[t].pc = "actions"
         /\ runs[u].pc = "actions"
         /\ runs[t].context_id = runs[u].context_id) =>
            runs[t].page # runs[u].page

vars ==
    <<execVars, findVars, engineVars, storeVars, serverVars, toolVars, lifeVars,
      runVars>>

\* A component that takes no step keeps the first of its initial states.
ExecParked ==
    /\ retry_count = 0
    /\ action = [action |-> NoKind, target |-> "#go"]
    /\ script = [i \in 1 .. MaxRetry |-> [kind |-> "raise", error |-> "timeout"]]
    /\ pc = "start"
    /\ attempt = 0
    /\ result = None
    /\ calls = 0
    /\ sleeps = 0
    /\ retry_delay = 1
    /\ delays = <<>>
    /\ world = [i \in 1 .. MaxRetry |-> Still]
    /\ document = "top"

FindParked ==
    /\ page = [q \in Queries |-> NoMatch]
    /\ description = [empty |-> TRUE, words |-> <<>>]
    /\ fpc = "cascade"
    /\ strategy = 1
    /\ word = 0
    /\ evaluated = <<>>
    /\ found = NotFound

\* ActionExecutor.execute, one call.
InitExec ==
    ExecInit /\ FindParked /\ EngineInit /\ StoreInit /\ ServerInit /\ ToolInit
        /\ LifeInit /\ RunsInit
SpecExec == InitExec /\ [][ExecNext]_vars

\* ActionExecutor.execute, one call, with the handlers of click, assert,
\* iframe and navigate.
InitHandlers ==
    HandlersInit /\ FindParked /\ EngineInit /\ StoreInit /\ ServerInit /\ ToolInit
        /\ LifeInit /\ RunsInit
SpecHandlers == InitHandlers /\ [][ExecNext]_vars

\* ActionExecutor._find_element, one call.
InitFind ==
    FindInit /\ ExecParked /\ EngineInit /\ StoreInit /\ ServerInit /\ ToolInit
        /\ LifeInit /\ RunsInit
SpecFind == InitFind /\ [][FindNext]_vars

\* ActionExecutor._find_element, one call, on the pages and descriptions that
\* exercise the description fallback.
InitFallback ==
    FallbackInit /\ ExecParked /\ EngineInit /\ StoreInit /\ ServerInit /\ ToolInit
        /\ LifeInit /\ RunsInit
SpecFallback == InitFallback /\ [][FindNext]_vars

\* BrowserEngine.get_or_create_page, called sequentially.
InitEngine ==
    EngineInit /\ ExecParked /\ FindParked /\ StoreInit /\ ServerInit /\ ToolInit
        /\ LifeInit /\ RunsInit
SpecEngineSeq == InitEngine /\ [][EngineNextSeq]_vars

\* BrowserEngine.get_or_create_page, called by concurrent tasks.
SpecEngine == InitEngine /\ [][EngineNext]_vars

\* TestContextManager, a sequence of operations.
InitStore ==
    StoreInit /\ ExecParked /\ FindParked /\ EngineInit /\ ServerInit /\ ToolInit
        /\ LifeInit /\ RunsInit
SpecStore == InitStore /\ [][StoreNext]_vars

\* BDDAutomationServer called with execute_test.
InitServer ==
    ServerInit /\ ExecParked /\ FindParked /\ EngineInit /\ StoreInit /\ ToolInit
        /\ LifeInit /\ RunsInit
SpecTest == InitServer /\ [][TestNext]_vars

\* BDDAutomationServer called with run_scenario and execute_test.
SpecScenario == InitServer /\ [][ScenarioNext]_vars

\* BrowserEngine from initialize to cleanup.
InitLife ==
    LifeInit /\ EngineInit /\ ExecParked /\ FindParked /\ StoreInit /\ ServerInit
        /\ ToolInit /\ RunsInit
SpecLife == InitLife /\ [][LifeNext]_vars

\* BDDAutomationServer called with execute_test and get_test_context.
SpecInfo == InitServer /\ [][InfoNext]_vars

\* BDDAutomationServer.execute_test called by concurrent tasks.
InitRuns ==
    RunsInit /\ ExecParked /\ FindParked /\ EngineInit /\ StoreInit /\ ServerInit
        /\ ToolInit /\ LifeInit
SpecRuns == InitRuns /\ [][RunsNext]_vars

\* BDDAutomationServer.call_tool, called by the host.
InitTool ==
    ToolInit /\ ExecParked /\ FindParked /\ EngineInit /\ StoreInit /\ ServerInit
        /\ LifeInit /\ RunsInit
SpecTool == InitTool /\ [][ToolNext]_vars

\* TestContextManager with exports and imports.
SpecPort == InitStore /\ [][PortNext]_vars

\* TestContextManager under patches whose test_data may not be a map.
SpecBadData == InitStore /\ [][BadDataNext]_vars

\* TestContextManager under patches that carry an id.
SpecIds == InitStore /\ [][IdNext]_vars

\* TestContextManager with its contexts listed and cleared.
SpecList == InitStore /\ [][ListNext]_vars

\* TestContextManager under patches that record a test or carry a history key.
SpecHistory == InitStore /\ [][HistoryNext]_vars

====
